---- MODULE Spec2Model ----
(***************************************************************************)
(* BandScan API: the outbox queue (student_requests_queue), the queue      *)
(* worker that drains it into the student-list spreadsheet, and the        *)
(* student sync worker that reconciles the spreadsheet with the students   *)
(* table.                                                                  *)
(*                                                                         *)
(* Instants.  Every timestamp of the program is the ISO-8601 text of       *)
(* datetime.utcnow() / datetime.now(utc); fixed-width ISO text orders as   *)
(* the instants do.  The program copies instants and orders them within    *)
(* one column (ORDER BY queued_at ASC); it never compares instants of two  *)
(* columns.  The model keeps an instant as a positive integer, NoTime for  *)
(* SQL NULL.  A read of the clock is a value later than every instant of   *)
(* the column it is stored in (Now), and after every step the instants of  *)
(* each column are renumbered 1..k in their order (Renumber): every        *)
(* comparison the program makes is kept, and the state space is finite     *)
(* although a failing entry is retried for ever.  Two reads of the clock   *)
(* never return the same instant: every operation that reads it opens a    *)
(* database connection first.                                              *)
(***************************************************************************)
EXTENDS Integers, Sequences, FiniteSets, TLC

\* ---------------------------------------------------------------- bounds
MaxReq == 3        \* rows of student_requests_queue
MaxRetry == 1      \* retry_count values >= MaxRetry are identified
BatchLimit == 2    \* stands for limit=10 of queue_worker.py:68

NULL == "NULL"     \* Python None / SQL NULL of a text column
NoTime == 0        \* SQL NULL of a timestamp column

VARIABLES
    responses,   \* 202 responses of POST /students/requests: {[id, timestamp]}
    queue,       \* table student_requests_queue, in rowid order
    sheet,       \* data rows of the student-list sheet (row i is sheet row i+1)
    qw,          \* QueueWorker: position in _run/_process_queue/_process_request
    failLog,     \* mark_request_failed calls since the last get_pending_requests:
                 \* the id, and the ids then pending and newer in the queue
    schools,     \* table schools: {[band_id, student_list_spreadsheet_id, short_name]}
    students,    \* table students: {[band_id, name, uid, student_code]}
    rosters,     \* the spreadsheets: spreadsheet id -> [modifiedTime, values]
    sw,          \* StudentSyncWorker: position in _run/_sync_all_schools/_sync_students
    last,        \* per band: did its latest cycle complete, and on which snapshot
    dirty,       \* bands whose students the CRUD routes wrote since their latest cycle began
    running,     \* _running of queue_worker and of student_sync_worker
    stopCall,    \* per worker: the latest call of stop(), and where it cancelled the task
    loops,       \* per worker: the _run tasks that were created and have not ended
    claimLog,    \* the latest response of POST /students/claim-tag: {} or {[student_code, new_uid, status]}
    student_requests, \* table student_requests: {[id, band_id, student_name, request_type, status]}
    handlers     \* the requests of /schools/{band_id}/requests being served

queueVars == <<responses, queue, sheet, qw, failLog>>

syncVars == <<schools, students, rosters, sw, last, dirty>>

lifeVars == <<running, stopCall, loops>>

routeVars == <<claimLog, student_requests, handlers>>

vars == <<queueVars, syncVars, lifeVars, routeVars>>

\* queue_worker and student_sync_worker, the two StudentSyncWorker/QueueWorker
\* instances of the process
Workers == {"queue", "sync"}

\* a start() without the test of _running: every call creates a task
TasksAfterStartUnguarded(is_running, n) == n + 1

\* start(): `if self._running: return`, else one task is created
TasksAfterStart(is_running, n) == IF is_running THEN n ELSE n + 1

\* no call of stop() since the worker was started
NoStop == [pc |-> "none", at |-> NULL]

\* a task into which CancelledError is caught by an except clause: it goes on
\* from the await at which it was suspended
CancelTaskCaught(task, at, done) == [task EXCEPT !.pc = at]

\* a task after task.cancel(): CancelledError is raised at the await at which
\* it is suspended; it is no Exception, no except clause of the worker catches
\* it, the finally clauses close the connection, and the task is done
CancelTask(task, at, done) == done

\* requests of /schools/{band_id}/requests served at the same time
Handlers == {1, 2}

\* a handler slot with no request in it
Idle == [pc |-> "idle"]

\* ------------------------------------------------------------- helpers
Truthy(x) == x \notin {NULL, ""}

Min(S) == CHOOSE x \in S : \A y \in S : x <= y

\* retry_count + 1 of an unbounded INTEGER column, values >= MaxRetry identified
Inc(n) == IF n >= MaxRetry THEN MaxRetry ELSE n + 1

\* ----------------------------------------------------- student_requests_queue
\* an enqueue that drops a request whose payload a pending row already has
queue_student_request_dedup(q, request_id, request_type, student_code, student_uid, request_timestamp, now) ==
    IF \E i \in DOMAIN q : /\ q[i].status = "pending"
                           /\ q[i].request_type = request_type
                           /\ q[i].student_code = student_code
                           /\ q[i].student_uid = student_uid
    THEN q
    ELSE Append(q, [id                |-> request_id,
                    request_type      |-> request_type,
                    student_code      |-> student_code,
                    student_uid       |-> student_uid,
                    request_timestamp |-> request_timestamp,
                    queued_at         |-> now,
                    status            |-> "pending",
                    retry_count       |-> 0,
                    last_error        |-> NULL,
                    processed_at      |-> NoTime])

\* INSERT INTO student_requests_queue (...) VALUES (..., 'pending')
queue_student_request(q, request_id, request_type, student_code, student_uid, request_timestamp, now) ==
    Append(q, [id                |-> request_id,
               request_type      |-> request_type,
               student_code      |-> student_code,
               student_uid       |-> student_uid,
               request_timestamp |-> request_timestamp,
               queued_at         |-> now,
               status            |-> "pending",
               retry_count       |-> 0,
               last_error        |-> NULL,
               processed_at      |-> NoTime])

\* rowids of the rows WHERE status = 'pending'
PendingRows(q) == {i \in DOMAIN q : q[i].status = "pending"}

\* ORDER BY queued_at ASC over the rowids S (equal queued_at: rowid order)
OrderByQueuedAt(q, S) ==
    LET before(j, i) == q[j].queued_at < q[i].queued_at \/ (q[j].queued_at = q[i].queued_at /\ j < i)
    IN  [k \in 1..Cardinality(S) |-> CHOOSE i \in S : Cardinality({j \in S : before(j, i)}) = k - 1]

\* a SELECT without the WHERE clause
get_pending_requests_any_status(q, limit) ==
    LET ordered == OrderByQueuedAt(q, DOMAIN q)
        n == IF Len(ordered) < limit THEN Len(ordered) ELSE limit
    IN  [k \in 1..n |-> q[ordered[k]]]

OrderByRequestTimestamp(q, S) ==
    LET before(j, i) == q[j].request_timestamp < q[i].request_timestamp \/ (q[j].request_timestamp = q[i].request_timestamp /\ j < i)
    IN  [k \in 1..Cardinality(S) |-> CHOOSE i \in S : Cardinality({j \in S : before(j, i)}) = k - 1]

\* a SELECT with ORDER BY request_timestamp ASC
get_pending_requests_by_request_timestamp(q, limit) ==
    LET ordered == OrderByRequestTimestamp(q, PendingRows(q))
        n == IF Len(ordered) < limit THEN Len(ordered) ELSE limit
    IN  [k \in 1..n |-> q[ordered[k]]]

\* SELECT * ... WHERE status = 'pending' ORDER BY queued_at ASC LIMIT ?
get_pending_requests(q, limit) ==
    LET ordered == OrderByQueuedAt(q, PendingRows(q))
        n == IF Len(ordered) < limit THEN Len(ordered) ELSE limit
    IN  [k \in 1..n |-> q[ordered[k]]]

\* an UPDATE that flips the status of the row
mark_request_processed_toggle(q, request_id, now) ==
    [i \in DOMAIN q |->
        IF q[i].id = request_id
        THEN [q[i] EXCEPT !.status = IF @ = "pending" THEN "processed" ELSE "pending", !.processed_at = now]
        ELSE q[i]]

\* UPDATE ... SET status = 'processed', processed_at = ? WHERE id = ?
mark_request_processed(q, request_id, now) ==
    [i \in DOMAIN q |->
        IF q[i].id = request_id
        THEN [q[i] EXCEPT !.status = "processed", !.processed_at = now]
        ELSE q[i]]

\* an UPDATE that gives up on the row at the retry bound
mark_request_failed_dead_letter(q, request_id, error, now) ==
    [i \in DOMAIN q |->
        IF q[i].id = request_id
        THEN [q[i] EXCEPT !.retry_count = Inc(@), !.last_error = error,
                          !.queued_at = now,
                          !.status = IF q[i].retry_count >= 1 THEN "failed" ELSE @]
        ELSE q[i]]

\* an UPDATE that leaves queued_at alone
mark_request_failed_in_place(q, request_id, error, now) ==
    [i \in DOMAIN q |->
        IF q[i].id = request_id
        THEN [q[i] EXCEPT !.retry_count = Inc(@), !.last_error = error]
        ELSE q[i]]

\* an UPDATE that also stamps request_timestamp
mark_request_failed_restamp(q, request_id, error, now) ==
    [i \in DOMAIN q |->
        IF q[i].id = request_id
        THEN [q[i] EXCEPT !.retry_count = Inc(@), !.last_error = error,
                          !.queued_at = now, !.request_timestamp = now]
        ELSE q[i]]

\* UPDATE ... SET retry_count = retry_count + 1, last_error = ?, queued_at = ?
\* WHERE id = ?
mark_request_failed(q, request_id, error, now) ==
    [i \in DOMAIN q |->
        IF q[i].id = request_id
        THEN [q[i] EXCEPT !.retry_count = Inc(@), !.last_error = error,
                          !.queued_at = now]
        ELSE q[i]]

\* ------------------------------------------------------- sheets_service
\* 1-indexed sheet row of the first data row whose column B equals student_uid
\* or whose column I equals student_code; 0 for None
find_student_row(rows, student_code, student_uid) ==
    LET hits == {i \in DOMAIN rows :
                    \/ Truthy(student_uid) /\ rows[i].B = student_uid
                    \/ Truthy(student_code) /\ rows[i].I = student_code}
    IN  IF hits = {} THEN 0 ELSE Min(hits) + 1

\* the request list held as JSON in column J of the student's row (J: the
\* list json.loads gives; malformed: the text of the cell is not JSON, and
\* json.loads raises JSONDecodeError)
get_student_requests(rows, student_code, student_uid) ==
    LET row == find_student_row(rows, student_code, student_uid)
    IN  IF row = 0 THEN <<>>
        ELSE IF rows[row - 1].malformed THEN <<>>
        ELSE rows[row - 1].J

\* a request object stamped with the time of the write
NewRequestDrainTime(request_type, request_id, request_timestamp, now) ==
    [id        |-> request_id,
     type      |-> request_type,
     timestamp |-> now,
     status    |-> "pending"]

\* the dict add_student_request appends
NewRequest(request_type, request_id, request_timestamp, now) ==
    [id        |-> request_id,
     type      |-> request_type,
     timestamp |-> IF request_timestamp # NoTime THEN request_timestamp ELSE now,
     status    |-> "pending"]

\* an append without the check for a pending request of the same type
add_student_request_no_guard(rows, request_type, student_code, student_uid, request_id, request_timestamp, now) ==
    LET row == find_student_row(rows, student_code, student_uid)
        existing_requests == get_student_requests(rows, student_code, student_uid)
        new_request == NewRequest(request_type, request_id, request_timestamp, now)
    IN  IF row = 0 THEN [error |-> "Student not found", rows |-> rows]
        ELSE [error |-> NULL,
              rows  |-> [rows EXCEPT ![row - 1].J = Append(existing_requests, new_request),
                                    ![row - 1].malformed = FALSE]]

\* [error, rows]: the exception raised (NULL for none) and the sheet afterwards
add_student_request(rows, request_type, student_code, student_uid, request_id, request_timestamp, now) ==
    LET row == find_student_row(rows, student_code, student_uid)
        existing_requests == get_student_requests(rows, student_code, student_uid)
        duplicate == \E k \in DOMAIN existing_requests :
                        /\ existing_requests[k].type = request_type
                        /\ existing_requests[k].status = "pending"
        new_request == NewRequest(request_type, request_id, request_timestamp, now)
    IN  IF row = 0 THEN [error |-> "Student not found", rows |-> rows]
        ELSE IF duplicate
        THEN [error |-> "Already have a pending request", rows |-> rows]
        ELSE [error |-> NULL,
              rows  |-> [rows EXCEPT ![row - 1].J = Append(existing_requests, new_request),
                                    ![row - 1].malformed = FALSE]]

\* a check that finds every tag free
verify_uid_available_always(rows, uid) == TRUE

\* verify_uid_available: no data row has this uid in column B (an empty cell
\* is no element of the values the API returns)
verify_uid_available(rows, uid) == ~\E i \in DOMAIN rows : rows[i].B # "" /\ rows[i].B = uid

\* update_student_uid: [error, rows]; the uid goes to column B of the row
\* whose column I holds the code
update_student_uid(rows, student_code, new_uid) ==
    LET row == find_student_row(rows, student_code, NULL)
    IN  IF row = 0 THEN [error |-> "Student not found", rows |-> rows]
        ELSE [error |-> NULL, rows |-> [rows EXCEPT ![row - 1].B = new_uid]]

\* ------------------------------------------------------------ instants
Max(S) == CHOOSE x \in S : \A y \in S : x >= y

\* datetime.utcnow() stored in a column whose instants are S
Now(S) == Max(S \cup {NoTime}) + 1

Renumber(T, t) == IF t = NoTime THEN NoTime ELSE Cardinality({u \in T : u < t /\ u # NoTime}) + 1

\* the instants of the request timestamps: the queue rows', the responses',
\* the request objects' in column J, the worker's batch
RequestTimes(q, sh, rs, w) ==
    {q[i].request_timestamp : i \in DOMAIN q}
    \cup UNION {{sh[r].J[k].timestamp : k \in DOMAIN sh[r].J} : r \in DOMAIN sh}
    \cup {r.timestamp : r \in rs}
    \cup {w.pending[k].request_timestamp : k \in DOMAIN w.pending}

RenumberRequests(T, J) == [k \in DOMAIN J |-> [J[k] EXCEPT !.timestamp = Renumber(T, @)]]

\* the state after a step, the instants of each column renumbered in their order
\* (TR, TQ, TP: the instants of the three columns before renumbering)
Commit(q0, sh0, rs, w0) ==
    \E q \in {q0}, sh \in {sh0}, w \in {w0} :
    \E TR \in {RequestTimes(q, sh, rs, w)}, TQ \in {{q[i].queued_at : i \in DOMAIN q}}, TP \in {{q[i].processed_at : i \in DOMAIN q}} :
        /\ queue' = [i \in DOMAIN q |->
                        [q[i] EXCEPT !.request_timestamp = Renumber(TR, @),
                                     !.queued_at = Renumber(TQ, @),
                                     !.processed_at = Renumber(TP, @)]]
        /\ sheet' = [r \in DOMAIN sh |-> [sh[r] EXCEPT !.J = RenumberRequests(TR, @)]]
        /\ responses' = {[r EXCEPT !.timestamp = Renumber(TR, @)] : r \in rs}
        /\ qw' = [w EXCEPT !.pending =
                     [k \in DOMAIN w.pending |->
                         [w.pending[k] EXCEPT !.request_timestamp = Renumber(TR, @)]]]

QueuedAtNow(q) == Now({q[i].queued_at : i \in DOMAIN q})
ProcessedAtNow(q) == Now({q[i].processed_at : i \in DOMAIN q})
RequestTimeNow == Now(RequestTimes(queue, sheet, responses, qw))

\* --------------------------------------------- POST /students/requests
valid_types == {"nameChange", "instrumentChange", "loanerRequest", "lostTag"}

\* request bodies tried
TypeInputs == {"nameChange", "uidClaim", "bogus"}
TargetInputs == {[student_code |-> "K1", student_uid |-> NULL],
                 [student_code |-> NULL, student_uid |-> NULL]}

\* uuid4(): the ids are numbered in the order they are drawn
NewId == Len(queue) + 1

\* create_student_request: validation, uuid4(), timestamp, queue_student_request, 202
CreateStudentRequest(request_type, target) ==
    /\ Len(queue) < MaxReq
    /\ Truthy(target.student_code) \/ Truthy(target.student_uid)
    /\ request_type \in valid_types
    /\ LET timestamp == RequestTimeNow
       IN  Commit(queue_student_request(queue, NewId, request_type, target.student_code, target.student_uid, timestamp, QueuedAtNow(queue)),
                  sheet, responses \cup {[id |-> NewId, timestamp |-> timestamp]}, qw)
    /\ UNCHANGED failLog
    /\ UNCHANGED <<syncVars, lifeVars, routeVars>>

\* queue_student_request raises; the handler answers 500 and nothing is stored
CreateStudentRequestFails(request_type, target) ==
    /\ Len(queue) < MaxReq
    /\ Truthy(target.student_code) \/ Truthy(target.student_uid)
    /\ request_type \in valid_types
    /\ UNCHANGED <<responses, queue, sheet, qw, failLog>>
    /\ UNCHANGED <<syncVars, lifeVars, routeVars>>

\* ------------------------------------------- POST /students/claim-tag
\* request bodies tried
ClaimInputs == [student_code : {"K1", "K2", "K9"}, new_uid : {"U1", "U2", "U3"}]

\* claim_tag: verify_uid_available, then update_student_uid.  Both are calls
\* of the blocking Sheets client with no await that suspends between them:
\* the event loop runs the handler from its first statement to its response.
ClaimTag(request) ==
    /\ LET is_available == verify_uid_available(sheet, request.new_uid)
           res == update_student_uid(sheet, request.student_code, request.new_uid)
           status == IF ~is_available THEN 409 ELSE IF res.error # NULL THEN 400 ELSE 200
       IN  /\ sheet' = IF is_available THEN res.rows ELSE sheet
           /\ claimLog' = {[student_code |-> request.student_code, new_uid |-> request.new_uid, status |-> status]}
    /\ UNCHANGED <<responses, queue, qw, failLog>>
    /\ UNCHANGED <<syncVars, lifeVars, student_requests, handlers>>

\* a Sheets API call of claim_tag raises before anything is written: 500
ClaimTagTransportError(request) ==
    /\ claimLog' = {[student_code |-> request.student_code, new_uid |-> request.new_uid, status |-> 500]}
    /\ UNCHANGED <<responses, queue, sheet, qw, failLog>>
    /\ UNCHANGED <<syncVars, lifeVars, student_requests, handlers>>

\* ---------------------------------------------------------- QueueWorker
\* the rowid of the row with this id (ids are unique: PRIMARY KEY)
RowOf(q, id) == CHOOSE i \in DOMAIN q : q[i].id = id

\* ids of the pending rows that were queued after the row with this id
NewerPending(q, id) ==
    {q[i].id : i \in {j \in PendingRows(q) : q[j].queued_at > q[RowOf(q, id)].queued_at}}

Asleep == [pc |-> "sleep", pending |-> <<>>, pos |-> 0, error |-> NULL, wrote |-> FALSE]

\* the columns of a queue row that _process_request reads
RequestDict(row) ==
    [id                |-> row.id,
     request_type      |-> row.request_type,
     student_code      |-> row.student_code,
     student_uid       |-> row.student_uid,
     request_timestamp |-> row.request_timestamp]

\* a _run without the try/except around the tick: the exception ends the task
LoopAfterErrorUncaught(asleep) == [asleep EXCEPT !.pc = "done"]

\* _run: except Exception logs what the tick raised; the loop goes to its sleep
LoopAfterError(asleep) == asleep

\* _process_queue: pending = await get_pending_requests(limit=10)
ProcessQueue ==
    /\ running["queue"]
    /\ qw.pc = "sleep"
    /\ LET rows == get_pending_requests(queue, BatchLimit)
           pending == [k \in DOMAIN rows |-> RequestDict(rows[k])]
       IN  /\ pending # <<>>
           /\ qw' = [Asleep EXCEPT !.pc = "request", !.pending = pending, !.pos = 1]
    /\ failLog' = <<>>
    /\ UNCHANGED <<responses, queue, sheet>>
    /\ UNCHANGED <<syncVars, lifeVars, routeVars>>

\* get_pending_requests raises; _run logs it and sleeps
ProcessQueueFails ==
    /\ running["queue"]
    /\ qw.pc = "sleep"
    /\ qw' = LoopAfterError(qw)
    /\ UNCHANGED <<responses, queue, sheet, failLog>>
    /\ UNCHANGED <<syncVars, lifeVars, routeVars>>

\* after an entry: the next entry of the batch, or the end of the tick
NextEntry(w) ==
    IF w.pos < Len(w.pending)
    THEN [w EXCEPT !.pc = "request", !.pos = w.pos + 1, !.error = NULL, !.wrote = FALSE]
    ELSE Asleep

\* _process_request: await sheets_service.add_student_request(...)
ProcessRequest ==
    /\ qw.pc = "request"
    /\ LET request == qw.pending[qw.pos]
           res == add_student_request(sheet, request.request_type, request.student_code, request.student_uid, request.id, request.request_timestamp, RequestTimeNow)
       IN  IF res.error = NULL
           THEN Commit(queue, res.rows, responses, [qw EXCEPT !.pc = "mark_processed", !.wrote = TRUE])
           ELSE Commit(queue, sheet, responses, [qw EXCEPT !.pc = "mark_failed", !.error = res.error])
    /\ UNCHANGED failLog
    /\ UNCHANGED <<syncVars, lifeVars, routeVars>>

\* a Sheets API call of add_student_request raises before anything is written
ProcessRequestTransportError ==
    /\ qw.pc = "request"
    /\ qw' = [qw EXCEPT !.pc = "mark_failed", !.error = "transport"]
    /\ UNCHANGED <<responses, queue, sheet, failLog>>
    /\ UNCHANGED <<syncVars, lifeVars, routeVars>>

\* await mark_request_processed(request_id)
MarkProcessed ==
    /\ qw.pc = "mark_processed"
    /\ Commit(mark_request_processed(queue, qw.pending[qw.pos].id, ProcessedAtNow(queue)),
              sheet, responses, NextEntry(qw))
    /\ UNCHANGED failLog
    /\ UNCHANGED <<syncVars, lifeVars, routeVars>>

\* mark_request_processed raises: control passes to the except clause
MarkProcessedFails ==
    /\ qw.pc = "mark_processed"
    /\ qw' = [qw EXCEPT !.pc = "mark_failed", !.error = "storage"]
    /\ UNCHANGED <<responses, queue, sheet, failLog>>
    /\ UNCHANGED <<syncVars, lifeVars, routeVars>>

\* except Exception: await mark_request_failed(request_id, error=error_msg)
MarkFailed ==
    /\ qw.pc = "mark_failed"
    /\ Commit(mark_request_failed(queue, qw.pending[qw.pos].id, qw.error, QueuedAtNow(queue)),
              sheet, responses, NextEntry(qw))
    /\ failLog' = Append(failLog, [id |-> qw.pending[qw.pos].id, peers |-> NewerPending(queue, qw.pending[qw.pos].id)])
    /\ UNCHANGED <<syncVars, lifeVars, routeVars>>

\* mark_request_failed raises: the exception leaves _process_queue, _run logs it
MarkFailedFails ==
    /\ qw.pc = "mark_failed"
    /\ qw' = LoopAfterError(Asleep)
    /\ UNCHANGED <<responses, queue, sheet, failLog>>
    /\ UNCHANGED <<syncVars, lifeVars, routeVars>>

\* --------------------------------------------- QueueWorker.start / stop
\* start(): if self._running: return; self._running = True; create_task(_run())
StartQueueWorker ==
    /\ stopCall["queue"].pc # "awaiting"
    /\ loops' = [loops EXCEPT !["queue"] = TasksAfterStart(running["queue"], @)]
    /\ IF running["queue"]
       THEN UNCHANGED <<running, stopCall, qw>>
       ELSE /\ running' = [running EXCEPT !["queue"] = TRUE]
            /\ stopCall' = [stopCall EXCEPT !["queue"] = NoStop]
            /\ qw' = Asleep
    /\ UNCHANGED <<responses, queue, sheet, failLog>>
    /\ UNCHANGED <<syncVars, routeVars>>

\* stop() up to `await self._task`: it returns at once if the worker is not
\* running, else clears _running and cancels the task.  An awaited statement
\* of the task that was committing has committed: that is the state after
\* the action of the statement.
StopQueueWorker ==
    /\ stopCall["queue"].pc # "awaiting"
    /\ UNCHANGED loops
    /\ IF ~running["queue"]
       THEN /\ stopCall' = [stopCall EXCEPT !["queue"] = [pc |-> "returned", at |-> NULL]]
            /\ UNCHANGED <<running, qw>>
       ELSE /\ running' = [running EXCEPT !["queue"] = FALSE]
            /\ stopCall' = [stopCall EXCEPT !["queue"] = [pc |-> "awaiting", at |-> qw.pc]]
            /\ qw' = [qw EXCEPT !.pc = "cancelling"]
    /\ UNCHANGED <<responses, queue, sheet, failLog>>
    /\ UNCHANGED <<syncVars, routeVars>>

\* the event loop resumes the cancelled task
QueueWorkerCancelled ==
    /\ qw.pc = "cancelling"
    /\ qw' = CancelTask(qw, stopCall["queue"].at, [Asleep EXCEPT !.pc = "done"])
    /\ UNCHANGED <<responses, queue, sheet, failLog>>
    /\ loops' = [loops EXCEPT !["queue"] = IF qw'.pc = "done" THEN @ - 1 ELSE @]
    /\ UNCHANGED <<running, stopCall>>
    /\ UNCHANGED <<syncVars, routeVars>>

\* stop(): `await self._task` raises CancelledError, which stop() passes over
StopQueueWorkerReturns ==
    /\ stopCall["queue"].pc = "awaiting"
    /\ qw.pc = "done"
    /\ stopCall' = [stopCall EXCEPT !["queue"].pc = "returned"]
    /\ UNCHANGED <<running, loops>>
    /\ UNCHANGED <<queueVars, syncVars, routeVars>>

\* ------------------------------------------------------ specifications
SheetRows ==
    << [A |-> "Alice", B |-> "U1", C |-> "Flute", I |-> "K1", J |-> <<>>, malformed |-> FALSE],
       [A |-> "Bob",   B |-> "U2", C |-> "",      I |-> "K2", J |-> <<>>, malformed |-> FALSE] >>

\* ------------------------------------------------------- students table
\* dict.get(key): None for a key the dict does not have
Get(dict, key) == IF key \in DOMAIN dict THEN dict[key] ELSE NULL

\* SELECT * FROM students WHERE band_id = ?
get_all_students(st, band_id) == {r \in st : r.band_id = band_id}

\* SELECT 1 FROM students WHERE student_code = ?
check_student_code_exists(st, student_code) == \E r \in st : r.student_code = student_code

\* the parameters of upsert_student
upsert_student_params == {"band_id", "name", "uid", "student_code"}

\* COALESCE(excluded.c, students.c)
Coalesce(x, y) == IF x # NULL THEN x ELSE y

\* the INSERT ... ON CONFLICT(band_id, name) DO UPDATE of upsert_student
UpsertRow(st, band_id, name, uid, student_code) ==
    IF \E r \in st : r.band_id = band_id /\ r.name = name
    THEN {IF r.band_id = band_id /\ r.name = name
          THEN [r EXCEPT !.uid = Coalesce(uid, @), !.student_code = Coalesce(student_code, @)]
          ELSE r : r \in st}
    ELSE st \cup {[band_id |-> band_id, name |-> name, uid |-> uid, student_code |-> student_code]}

\* an upsert_student that takes any keyword and ignores those it does not know
upsert_student_any_keyword(st, kwargs) ==
    [error |-> NULL, students |-> UpsertRow(st, kwargs.band_id, kwargs.name, Get(kwargs, "uid"), Get(kwargs, "student_code"))]

\* upsert_student(**kwargs): [error, students]; a keyword that is not a
\* parameter is a TypeError, a student_code another row holds breaks UNIQUE
upsert_student(st, kwargs) ==
    IF ~(DOMAIN kwargs \subseteq upsert_student_params)
    THEN [error |-> "TypeError", students |-> st]
    ELSE IF \E r \in st : /\ Get(kwargs, "student_code") # NULL
                          /\ r.student_code = Get(kwargs, "student_code")
                          /\ ~(r.band_id = kwargs.band_id /\ r.name = kwargs.name)
    THEN [error |-> "IntegrityError", students |-> st]
    ELSE [error |-> NULL, students |-> UpsertRow(st, kwargs.band_id, kwargs.name, Get(kwargs, "uid"), Get(kwargs, "student_code"))]

\* DELETE FROM students WHERE band_id = ? AND name = ?
delete_student(st, band_id, name) == {r \in st : ~(r.band_id = band_id /\ r.name = name)}

\* names of a list of names
NameSet(valid_names) == {valid_names[k] : k \in DOMAIN valid_names}

\* a deletion that is not idempotent: with no orphan left to delete, it
\* deletes the students of the list
delete_students_not_in_list_then_listed(st, band_id, valid_names) ==
    LET orphans == {r \in st : r.band_id = band_id /\ r.name \notin NameSet(valid_names)}
        listed == {r \in st : r.band_id = band_id /\ r.name \in NameSet(valid_names)}
    IN  IF orphans # {} THEN [deleted |-> Cardinality(orphans), students |-> st \ orphans]
        ELSE [deleted |-> Cardinality(listed), students |-> st \ listed]

\* delete_students_not_in_list(band_id, valid_names): [deleted, students]
delete_students_not_in_list(st, band_id, valid_names) ==
    LET orphans == {r \in st : r.band_id = band_id /\ r.name \notin NameSet(valid_names)}
    IN  [deleted |-> Cardinality(orphans), students |-> st \ orphans]

\* the place of a short name in the collation order
Collate(short_name) == CASE short_name = "Alpha" -> 1 [] short_name = "Beta" -> 2

\* SELECT * FROM schools ORDER BY short_name
get_all_schools(sc) ==
    LET before(a, b) == Collate(a.short_name) < Collate(b.short_name)
    IN  [k \in 1..Cardinality(sc) |-> CHOOSE a \in sc : Cardinality({b \in sc : before(b, a)}) = k - 1]

\* update_school(band_id, **kwargs): only the allowed fields are written
allowed_fields == {"logo_url", "short_name", "primary_color", "full_name", "admin_emails", "attendance_template_id", "inventory_sheet_id", "active_student_list", "student_list_spreadsheet_id"}

update_school(sc, band_id, kwargs) ==
    LET updates == [k \in DOMAIN kwargs \cap allowed_fields |-> kwargs[k]]
    IN  {IF r.band_id = band_id
         THEN [c \in DOMAIN r |-> IF c \in DOMAIN updates THEN updates[c] ELSE r[c]]
         ELSE r : r \in sc}

\* ------------------------------------------------------- roster sheets
\* str.lower() and str.strip() on the cells that occur
Lower(h) ==
    CASE h = "Name" -> "name"
      [] h = " NAME " -> " name "
      [] h = "NFC UID" -> "nfc uid"
      [] h = "Instrument" -> "instrument"
      [] h = "Section" -> "section"
      [] OTHER -> h

Strip(h) ==
    CASE h = " name " -> "name"
      [] h = " Bob " -> "Bob"
      [] OTHER -> h

\* the first 0-based index whose header is one of the spellings ({}: none)
FirstColumn(header_lower, spellings) ==
    LET hits == {i \in DOMAIN header_lower : header_lower[i] \in spellings}
    IN  IF hits = {} THEN {} ELSE {Min(hits) - 1}

\* parse_header_columns(header_row): field -> 0-based column index
parse_header_columns(header_row) ==
    LET header_lower == [i \in DOMAIN header_row |-> IF header_row[i] # "" THEN Strip(Lower(header_row[i])) ELSE ""]
        name == FirstColumn(header_lower, {"name", "student name", "full name", "student"})
        instrument == FirstColumn(header_lower, {"instrument", "instruments", "section", "part"})
        uid == FirstColumn(header_lower, {"uid", "nfc", "nfc uid", "tag", "tag uid", "nfc tag"})
        student_code == FirstColumn(header_lower, {"code", "student code", "auth code", "qr", "qr code", "login code"})
        col(field) == CASE field = "name" -> IF name # {} THEN name ELSE IF Len(header_row) > 0 THEN {0} ELSE {}
                        [] field = "instrument" -> instrument
                        [] field = "uid" -> uid
                        [] field = "student_code" -> student_code
        fields == {f \in {"name", "instrument", "uid", "student_code"} : col(f) # {}}
    IN  [f \in fields |-> CHOOSE i \in col(f) : TRUE]

\* the cell of a row in a 0-based column, stripped; None for an empty cell
CellOrNone(row, column) ==
    IF column + 1 \in DOMAIN row /\ row[column + 1] # "" /\ Strip(row[column + 1]) # ""
    THEN Strip(row[column + 1])
    ELSE NULL

HasName(student) == student.name # ""

\* get_all_students_from_sheet: the dicts of the rows that have a name
get_all_students_from_sheet(values) ==
    IF values = <<>> THEN <<>>
    ELSE LET column_map == parse_header_columns(values[1])
             name_col == IF "name" \in DOMAIN column_map THEN column_map["name"] ELSE 0
             dict(row) ==
                 [name         |-> IF CellOrNone(row, name_col) = NULL THEN "" ELSE CellOrNone(row, name_col),
                  instrument   |-> IF "instrument" \in DOMAIN column_map THEN CellOrNone(row, column_map["instrument"]) ELSE NULL,
                  uid          |-> IF "uid" \in DOMAIN column_map THEN CellOrNone(row, column_map["uid"]) ELSE NULL,
                  student_code |-> NULL]
         IN  SelectSeq([k \in 1..(Len(values) - 1) |-> dict(values[k + 1])], HasName)


\* ------------------------------------------------------- inputs
SchoolInputs ==
    {[band_id |-> "B1", student_list_spreadsheet_id |-> "S1", short_name |-> "Alpha"],
     [band_id |-> "B2", student_list_spreadsheet_id |-> "S2", short_name |-> "Beta"]}

StudentInputs ==
    {[band_id |-> "B1", name |-> "Alice", uid |-> "U1", student_code |-> "K1"],
     [band_id |-> "B1", name |-> "Alice", uid |-> NULL, student_code |-> NULL],
     [band_id |-> "B1", name |-> "Bob", uid |-> NULL, student_code |-> NULL],
     [band_id |-> "B2", name |-> "Alice", uid |-> NULL, student_code |-> NULL]}

\* what the sheet of school B1 may hold: its modifiedTime and its cells A:C
RosterInputs ==
    {[modifiedTime |-> "T1",
      values |-> << <<"Name", "NFC UID", "Instrument">>, <<"Alice", "U9", "Flute">>, <<"Carol", "", "">> >>],
     [modifiedTime |-> "T2",
      values |-> << <<" NAME ", "", "Section">>, <<"Alice", "", "Flute">>, <<" Bob ", "", "">> >>],
     [modifiedTime |-> "T3",
      values |-> << <<"Name", "NFC UID", "Instrument">>, <<"Alice", "U9", "">>, <<"", "", "">> >>]}

Rosters ==
    [sid \in {"S1", "S2"} |->
        IF sid = "S1"
        THEN [modifiedTime |-> "T0", values |-> << <<"Name", "NFC UID", "Instrument">>, <<"Alice", "", "">>, <<"Bob", "", "">> >>]
        ELSE [modifiedTime |-> "T0", values |-> << <<"Name", "NFC UID", "Instrument">>, <<"Alice", "", "">> >>]]

Bands == {"B1", "B2"}

\* somebody edits a cell of column J of the sheet: its text is no JSON now
CorruptCell(i) ==
    /\ ~sheet[i].malformed
    /\ sheet' = [sheet EXCEPT ![i].J = <<>>, ![i].malformed = TRUE]
    /\ UNCHANGED <<responses, queue, qw, failLog>>
    /\ UNCHANGED <<syncVars, lifeVars, routeVars>>

\* the request object k of row i is resolved in the sheet: its status is no
\* longer "pending" (add_student_request only counts pending objects, and
\* nothing in the service ever writes another status)
ResolveInSheet(i, k) ==
    /\ Len(sheet[i].J) <= MaxReq
    /\ ~sheet[i].malformed
    /\ sheet[i].J[k].status = "pending"
    /\ sheet' = [sheet EXCEPT ![i].J[k].status = "approved"]
    /\ UNCHANGED <<responses, queue, qw, failLog>>
    /\ UNCHANGED <<syncVars, lifeVars, routeVars>>

\* ------------------------------------------------------- CRUD routes
\* routes/schools.py create_school: upsert_school
CreateSchool(school) ==
    /\ \A r \in schools : r.band_id # school.band_id
    /\ schools' = schools \cup {school}
    /\ UNCHANGED <<students, rosters, sw, last, dirty>>
    /\ UNCHANGED <<queueVars, lifeVars, routeVars>>

\* routes/students.py create_student: 409 on a known name or code, else upsert_student
CreateStudent(request) ==
    /\ ~\E r \in students : r.band_id = request.band_id /\ r.name = request.name
    /\ Truthy(request.student_code) => ~check_student_code_exists(students, request.student_code)
    /\ LET res == upsert_student(students, [band_id |-> request.band_id, name |-> request.name, uid |-> request.uid, student_code |-> request.student_code])
       IN  /\ res.error = NULL
           /\ students' = res.students
    /\ dirty' = dirty \cup {request.band_id}
    /\ UNCHANGED <<schools, rosters, sw, last>>
    /\ UNCHANGED <<queueVars, lifeVars, routeVars>>

\* routes/students.py delete_student_endpoint
DeleteStudent(band_id, name) ==
    /\ \E r \in students : r.band_id = band_id /\ r.name = name
    /\ students' = delete_student(students, band_id, name)
    /\ dirty' = dirty \cup {band_id}
    /\ UNCHANGED <<schools, rosters, sw, last>>
    /\ UNCHANGED <<queueVars, lifeVars, routeVars>>

\* somebody edits the sheet of school B1
EditRoster(roster) ==
    /\ rosters["S1"] # roster
    /\ rosters' = [rosters EXCEPT !["S1"] = roster]
    /\ UNCHANGED <<schools, students, sw, last, dirty>>
    /\ UNCHANGED <<queueVars, lifeVars, routeVars>>

\* ------------------------------------------ student_requests table
\* SELECT * FROM schools WHERE band_id = ? ({}: None)
get_school(sc, band_id) == {r \in sc : r.band_id = band_id}

\* SELECT * FROM students WHERE band_id = ? AND name = ? ({}: None)
get_student_by_name(st, band_id, name) == {r \in st : r.band_id = band_id /\ r.name = name}

\* update_student(band_id, name, uid=...): UPDATE students SET uid = ? WHERE ...
update_student(st, band_id, name, uid) ==
    {IF r.band_id = band_id /\ r.name = name THEN [r EXCEPT !.uid = uid] ELSE r : r \in st}

\* database.get_student_requests: the filters that are given are applied
db_get_student_requests(t, band_id, status, request_type, student_name) ==
    {r \in t : /\ r.band_id = band_id
               /\ Truthy(status) => r.status = status
               /\ Truthy(request_type) => r.request_type = request_type
               /\ Truthy(student_name) => r.student_name = student_name}

\* INSERT INTO student_requests (...) VALUES (..., 'pending', ?)
create_student_request(t, request_id, band_id, student_name, request_type) ==
    t \cup {[id |-> request_id, band_id |-> band_id, student_name |-> student_name,
             request_type |-> request_type, status |-> "pending"]}

\* SELECT * FROM student_requests WHERE id = ? ({}: None)
get_student_request(t, request_id) == {r \in t : r.id = request_id}

\* UPDATE student_requests SET status = ?, ... WHERE id = ?
resolve_student_request(t, request_id, status) ==
    {IF r.id = request_id THEN [r EXCEPT !.status = status] ELSE r : r \in t}

\* DELETE FROM student_requests WHERE id = ?
delete_student_request(t, request_id) == {r \in t : r.id # request_id}

\* ------------------------------- /schools/{band_id}/requests routes
\* request bodies and paths tried
RequestInputs == [band_id : Bands, student_name : {"Alice"}, request_type : {"lostTag", "bogus"}]

ResolveInputs == {"approve", "deny", "bogus"}

RequestIds == 1..MaxReq

\* uuid4(): an id that no row holds and no request in flight refers to
NewRequestId ==
    Max({r.id : r \in student_requests}
        \cup {handlers[h].id : h \in {k \in Handlers : handlers[k].pc \in {"resolve", "cancel"}}}
        \cup {0}) + 1

\* create_request up to its last check: get_school, the request type,
\* get_student_by_name, get_student_requests(status="pending", ...).  Each is
\* an await on the database thread, where the event loop serves other requests.
CreateRequestCheck(h, request) ==
    /\ handlers[h] = Idle
    /\ Cardinality(student_requests) + Cardinality({k \in Handlers : handlers[k].pc = "create"}) < MaxReq
    /\ LET school == get_school(schools, request.band_id)
           student == get_student_by_name(students, request.band_id, request.student_name)
           existing == db_get_student_requests(student_requests, request.band_id, "pending", request.request_type, request.student_name)
       IN  /\ school # {}
           /\ request.request_type \in valid_types
           /\ student # {}
           /\ existing = {}
    /\ handlers' = [handlers EXCEPT ![h] = [pc |-> "create", band_id |-> request.band_id,
                                            student_name |-> request.student_name,
                                            request_type |-> request.request_type]]
    /\ UNCHANGED <<claimLog, student_requests>>
    /\ UNCHANGED <<queueVars, syncVars, lifeVars>>

\* create_request: request_id = str(uuid4()); await create_student_request(...): 201
CreateRequestInsert(h) ==
    /\ handlers[h].pc = "create"
    /\ student_requests' = create_student_request(student_requests, NewRequestId, handlers[h].band_id,
                                                  handlers[h].student_name, handlers[h].request_type)
    /\ handlers' = [handlers EXCEPT ![h] = Idle]
    /\ UNCHANGED claimLog
    /\ UNCHANGED <<queueVars, syncVars, lifeVars>>

\* a statement of a handler raises sqlite3.Error: 500
RequestStorageFails(h) ==
    /\ handlers[h] # Idle
    /\ handlers' = [handlers EXCEPT ![h] = Idle]
    /\ UNCHANGED <<claimLog, student_requests>>
    /\ UNCHANGED <<queueVars, syncVars, lifeVars>>

\* resolve_request up to get_school: the action, get_student_request, the
\* band, the status
ResolveRequestRead(h, band_id, request_id, action) ==
    /\ handlers[h] = Idle
    /\ action \in {"approve", "deny"}
    /\ \E request \in get_student_request(student_requests, request_id) :
          /\ request.band_id = band_id
          /\ request.status = "pending"
          /\ get_school(schools, band_id) # {}
          /\ handlers' = [handlers EXCEPT ![h] = [pc |-> "resolve", id |-> request_id, action |-> action,
                                                  band_id |-> band_id,
                                                  student_name |-> request.student_name,
                                                  request_type |-> request.request_type]]
    /\ UNCHANGED <<claimLog, student_requests>>
    /\ UNCHANGED <<queueVars, syncVars, lifeVars>>

\* the new_value of the nameChange requests tried
NewName == "Alicia"

\* find_student_row_by_name, then the update of cell A{row}: [error, values]
update_student_name(values, old_name, new_name) ==
    LET hits == {i \in 2..Len(values) : values[i] # <<>> /\ values[i][1] = old_name}
    IN  IF hits = {} THEN [error |-> "ValueError", values |-> values]
        ELSE [error |-> NULL, values |-> [values EXCEPT ![Min(hits)][1] = new_name]]

\* resolve_request: the change of an approved nameChange (update_student_name;
\* a ValueError is answered 400 and the request stays pending) or lostTag
\* (update_student(uid=None)), then resolve_student_request
ResolveRequestWrite(h) ==
    /\ handlers[h].pc = "resolve"
    /\ LET w == handlers[h]
           new_status == IF w.action = "approve" THEN "approved" ELSE "denied"
           clears == w.action = "approve" /\ w.request_type = "lostTag"
           renames == w.action = "approve" /\ w.request_type = "nameChange"
           school == CHOOSE r \in get_school(schools, w.band_id) : TRUE
           spreadsheet_id == Get(school, "student_list_spreadsheet_id")
           res == update_student_name(rosters[spreadsheet_id].values, w.student_name, NewName)
       IN  /\ students' = IF clears THEN update_student(students, w.band_id, w.student_name, NULL) ELSE students
           /\ dirty' = IF clears THEN dirty \cup {w.band_id} ELSE dirty
           /\ rosters' = IF renames /\ res.error = NULL
                         THEN [rosters EXCEPT ![spreadsheet_id] = [modifiedTime |-> "T4", values |-> res.values]]
                         ELSE rosters
           /\ student_requests' = IF renames /\ res.error # NULL
                                  THEN student_requests
                                  ELSE resolve_student_request(student_requests, w.id, new_status)
    /\ handlers' = [handlers EXCEPT ![h] = Idle]
    /\ UNCHANGED <<schools, sw, last>>
    /\ UNCHANGED claimLog
    /\ UNCHANGED <<queueVars, lifeVars>>

\* cancel_request up to its last check: get_student_request, the band, the status
CancelRequestRead(h, band_id, request_id) ==
    /\ handlers[h] = Idle
    /\ \E request \in get_student_request(student_requests, request_id) :
          /\ request.band_id = band_id
          /\ request.status = "pending"
    /\ handlers' = [handlers EXCEPT ![h] = [pc |-> "cancel", id |-> request_id]]
    /\ UNCHANGED <<claimLog, student_requests>>
    /\ UNCHANGED <<queueVars, syncVars, lifeVars>>

\* cancel_request: deleted = await delete_student_request(request_id)
CancelRequestDelete(h) ==
    /\ handlers[h].pc = "cancel"
    /\ student_requests' = delete_student_request(student_requests, handlers[h].id)
    /\ handlers' = [handlers EXCEPT ![h] = Idle]
    /\ UNCHANGED claimLog
    /\ UNCHANGED <<queueVars, syncVars, lifeVars>>

\* ---------------------------------------------------- StudentSyncWorker
SyncAsleep ==
    [pc |-> "sleep", todo |-> <<>>, band_id |-> NULL, current_modified |-> NULL,
     sheet_students |-> <<>>, api_students_by_name |-> <<>>, valid_names |-> <<>>,
     i |-> 0, created |-> 0, updated |-> 0, deleted |-> 0, repeat |-> FALSE, error |-> NULL]

\* a loop without the try/except around each school: an error ends the tick
NextSchoolStopOnError(w, error) ==
    IF Len(w.todo) > 1 /\ error = NULL
    THEN [SyncAsleep EXCEPT !.pc = "school", !.todo = Tail(w.todo), !.error = error]
    ELSE [SyncAsleep EXCEPT !.error = error]

\* the loop of _sync_all_schools moves on: the next school, or the sleep of _run
NextSchool(w, error) ==
    IF Len(w.todo) > 1
    THEN [SyncAsleep EXCEPT !.pc = "school", !.todo = Tail(w.todo), !.error = error]
    ELSE [SyncAsleep EXCEPT !.error = error]

\* _sync_all_schools: schools = await get_all_schools()
SyncAllSchools ==
    /\ running["sync"]
    /\ sw.pc = "sleep"
    /\ schools # {}
    /\ sw' = [SyncAsleep EXCEPT !.pc = "school", !.todo = get_all_schools(schools)]
    /\ UNCHANGED <<schools, students, rosters, last, dirty>>
    /\ UNCHANGED <<queueVars, lifeVars, routeVars>>

\* get_all_schools raises; _run logs it and sleeps
SyncAllSchoolsFails ==
    /\ running["sync"]
    /\ sw.pc = "sleep"
    /\ sw' = LoopAfterError(sw)
    /\ UNCHANGED <<schools, students, rosters, last, dirty>>
    /\ UNCHANGED <<queueVars, lifeVars, routeVars>>

\* _sync_school_if_changed up to the loop of _sync_students: the gate, then
\* get_all_students_from_sheet and get_all_students
SyncSchoolIfChanged ==
    /\ sw.pc = "school"
    /\ LET school == Head(sw.todo)
           band_id == Get(school, "band_id")
           spreadsheet_id == Get(school, "student_list_spreadsheet_id")
           last_sheet_modified == Get(school, "sheet_modified_at")
           current_modified == rosters[spreadsheet_id].modifiedTime
           sheet_students == get_all_students_from_sheet(rosters[spreadsheet_id].values)
           api_students == get_all_students(students, band_id)
       IN  IF ~Truthy(spreadsheet_id) \/ (Truthy(last_sheet_modified) /\ current_modified = last_sheet_modified)
           THEN /\ sw' = NextSchool(sw, NULL)
                /\ UNCHANGED <<last, dirty>>
           ELSE /\ sw' = [sw EXCEPT !.pc = IF sheet_students = <<>> THEN "delete" ELSE "rows",
                                    !.band_id = band_id,
                                    !.current_modified = current_modified,
                                    !.sheet_students = sheet_students,
                                    !.api_students_by_name = [n \in {r.name : r \in api_students} |-> CHOOSE r \in api_students : r.name = n],
                                    !.i = 1,
                                    !.repeat = last[band_id].ok /\ band_id \notin dirty /\ last[band_id].snapshot = sheet_students,
                                    !.error = NULL]
                /\ last' = [last EXCEPT ![band_id] = [ok |-> FALSE, snapshot |-> <<>>]]
                /\ dirty' = dirty \ {band_id}
    /\ UNCHANGED <<schools, students, rosters>>
    /\ UNCHANGED <<queueVars, lifeVars, routeVars>>

\* get_spreadsheet_modified_time returns None, or the read of the sheet raises
SyncSchoolFetchFails ==
    /\ sw.pc = "school"
    /\ sw' = NextSchool(sw, "transport")
    /\ UNCHANGED <<schools, students, rosters, last, dirty>>
    /\ UNCHANGED <<queueVars, lifeVars, routeVars>>

\* a call for a known name that hands over the uid of the sheet
UpdateKeywordsWithUid(band_id, name, student) ==
    [band_id |-> band_id, name |-> name, uid |-> student.uid]

\* the keywords of the upsert_student call for a name the mirror has
UpdateKeywords(band_id, name, student) ==
    [band_id |-> band_id, name |-> name, instrument |-> student.instrument]

\* the keywords of the upsert_student call for a name the mirror lacks
CreateKeywords(band_id, name, student) ==
    [band_id |-> band_id, name |-> name, instrument |-> student.instrument, uid |-> student.uid]

\* after a row of the loop: the next row, or the orphan deletion
NextRow(w) == IF w.i < Len(w.sheet_students) THEN [w EXCEPT !.i = w.i + 1] ELSE [w EXCEPT !.pc = "delete"]

\* _sync_students: one turn of the loop over sheet_students
SyncRow ==
    /\ sw.pc = "rows"
    /\ LET student == sw.sheet_students[sw.i]
           name == student.name
           w == [sw EXCEPT !.valid_names = Append(@, name)]
           known == name \in DOMAIN sw.api_students_by_name
           needs_update == /\ known
                           /\ Truthy(student.instrument)
                           /\ student.instrument # Get(sw.api_students_by_name[name], "instrument")
           res == IF known
                  THEN upsert_student(students, UpdateKeywords(sw.band_id, name, student))
                  ELSE upsert_student(students, CreateKeywords(sw.band_id, name, student))
       IN  IF known /\ ~needs_update
           THEN /\ sw' = NextRow(w)
                /\ UNCHANGED students
           ELSE IF res.error # NULL
           THEN /\ sw' = NextSchool(sw, res.error)
                /\ UNCHANGED students
           ELSE /\ students' = res.students
                /\ sw' = IF known THEN NextRow([w EXCEPT !.updated = @ + 1]) ELSE NextRow([w EXCEPT !.created = @ + 1])
    /\ UNCHANGED <<schools, rosters, last, dirty>>
    /\ UNCHANGED <<queueVars, lifeVars, routeVars>>

\* the loop of _sync_students over the rows that are left, from the table and
\* the error reached so far: [error, students]
RECURSIVE ApplyRows(_, _, _, _)
ApplyRows(res, band_id, api_students_by_name, rows) ==
    IF rows = <<>> \/ res.error # NULL THEN res
    ELSE LET student == Head(rows)
             name == student.name
             known == name \in DOMAIN api_students_by_name
             needs_update == /\ known
                             /\ Truthy(student.instrument)
                             /\ student.instrument # Get(api_students_by_name[name], "instrument")
             after == IF known /\ ~needs_update THEN res
                      ELSE IF known THEN upsert_student(res.students, UpdateKeywords(band_id, name, student))
                      ELSE upsert_student(res.students, CreateKeywords(band_id, name, student))
         IN  ApplyRows(after, band_id, api_students_by_name, Tail(rows))

\* _sync_students from its second read to its return, with nothing else
\* writing the table meanwhile: [error, students]
sync_students(st, band_id, sheet_students) ==
    LET api_students == get_all_students(st, band_id)
        api_students_by_name == [n \in {r.name : r \in api_students} |-> CHOOSE r \in api_students : r.name = n]
        res == ApplyRows([error |-> NULL, students |-> st], band_id, api_students_by_name, sheet_students)
        valid_names == [k \in DOMAIN sheet_students |-> sheet_students[k].name]
    IN  IF res.error # NULL THEN res
        ELSE [error |-> NULL, students |-> delete_students_not_in_list(res.students, band_id, valid_names).students]

\* deleted = await delete_students_not_in_list(band_id, valid_names)
DeleteOrphans ==
    /\ sw.pc = "delete"
    /\ LET res == delete_students_not_in_list(students, sw.band_id, sw.valid_names)
       IN  /\ students' = res.students
           /\ sw' = [sw EXCEPT !.pc = "record", !.deleted = res.deleted]
    /\ last' = [last EXCEPT ![sw.band_id] = [ok |-> TRUE, snapshot |-> sw.sheet_students]]
    /\ UNCHANGED <<schools, rosters, dirty>>
    /\ UNCHANGED <<queueVars, lifeVars, routeVars>>

\* await update_school(band_id, last_synced_at=now, sheet_modified_at=current_modified)
RecordSync ==
    /\ sw.pc = "record"
    /\ schools' = update_school(schools, sw.band_id, [last_synced_at |-> "now", sheet_modified_at |-> sw.current_modified])
    /\ sw' = NextSchool(sw, NULL)
    /\ UNCHANGED <<students, rosters, last, dirty>>
    /\ UNCHANGED <<queueVars, lifeVars, routeVars>>

\* a statement of the cycle raises sqlite3.Error; _sync_all_schools logs it
SyncStorageFails ==
    /\ sw.pc \in {"rows", "delete", "record"}
    /\ sw' = NextSchool(sw, "storage")
    /\ UNCHANGED <<schools, students, rosters, last, dirty>>
    /\ UNCHANGED <<queueVars, lifeVars, routeVars>>


Init ==
    /\ responses = {}
    /\ queue = <<>>
    /\ sheet = SheetRows
    /\ qw = Asleep
    /\ failLog = <<>>
    /\ schools = {}
    /\ students = {}
    /\ rosters = Rosters
    /\ sw = SyncAsleep
    /\ last = [b \in Bands |-> [ok |-> FALSE, snapshot |-> <<>>]]
    /\ dirty = {}
    /\ running = [w \in Workers |-> TRUE]
    /\ loops = [w \in Workers |-> 1]
    /\ stopCall = [w \in Workers |-> NoStop]
    /\ claimLog = {}
    /\ student_requests = {}
    /\ handlers = [h \in Handlers |-> Idle]

Next ==
    \/ \E t \in TypeInputs, g \in TargetInputs : CreateStudentRequest(t, g)
    \/ \E t \in TypeInputs, g \in TargetInputs : CreateStudentRequestFails(t, g)
    \/ ProcessQueue
    \/ ProcessQueueFails
    \/ ProcessRequest
    \/ ProcessRequestTransportError
    \/ MarkProcessed
    \/ MarkProcessedFails
    \/ MarkFailed
    \/ MarkFailedFails

Spec == Init /\ [][Next]_vars

SyncNext ==
    \/ \E school \in SchoolInputs : CreateSchool(school)
    \/ \E request \in StudentInputs : CreateStudent(request)
    \/ \E request \in StudentInputs : DeleteStudent(request.band_id, request.name)
    \/ \E roster \in RosterInputs : EditRoster(roster)
    \/ SyncAllSchools
    \/ SyncSchoolIfChanged
    \/ SyncSchoolFetchFails
    \/ SyncRow
    \/ DeleteOrphans
    \/ RecordSync
    \/ SyncStorageFails

SyncSpec == Init /\ [][SyncNext]_vars

\* the two routes a client has for a change of its row: claim-tag, which
\* writes the uid column itself, and the enqueue of a request
ClaimNext ==
    \/ \E request \in ClaimInputs : ClaimTag(request)
    \/ \E request \in ClaimInputs : ClaimTagTransportError(request)
    \/ \E t \in TypeInputs, g \in TargetInputs : CreateStudentRequest(t, g)

ClaimSpec == Init /\ [][ClaimNext]_vars

\* the approval workflow of /schools/{band_id}/requests, two requests at a time
RequestNext ==
    \/ \E school \in SchoolInputs : CreateSchool(school)
    \/ \E request \in StudentInputs : CreateStudent(request)
    \/ \E h \in Handlers, request \in RequestInputs : CreateRequestCheck(h, request)
    \/ \E h \in Handlers : CreateRequestInsert(h)
    \/ \E h \in Handlers : RequestStorageFails(h)
    \/ \E h \in Handlers, b \in Bands, id \in RequestIds, action \in ResolveInputs : ResolveRequestRead(h, b, id, action)
    \/ \E h \in Handlers : ResolveRequestWrite(h)
    \/ \E h \in Handlers, b \in Bands, id \in RequestIds : CancelRequestRead(h, b, id)
    \/ \E h \in Handlers : CancelRequestDelete(h)

RequestSpec == Init /\ [][RequestNext]_vars

\* --------------------------------------- StudentSyncWorker.start / stop
\* start(): if self._running: return; self._running = True; create_task(_run())
StartSyncWorker ==
    /\ stopCall["sync"].pc # "awaiting"
    /\ loops' = [loops EXCEPT !["sync"] = TasksAfterStart(running["sync"], @)]
    /\ IF running["sync"]
       THEN UNCHANGED <<running, stopCall, sw>>
       ELSE /\ running' = [running EXCEPT !["sync"] = TRUE]
            /\ stopCall' = [stopCall EXCEPT !["sync"] = NoStop]
            /\ sw' = SyncAsleep
    /\ UNCHANGED <<schools, students, rosters, last, dirty>>
    /\ UNCHANGED <<queueVars, routeVars>>

\* stop() up to `await self._task`
StopSyncWorker ==
    /\ stopCall["sync"].pc # "awaiting"
    /\ UNCHANGED loops
    /\ IF ~running["sync"]
       THEN /\ stopCall' = [stopCall EXCEPT !["sync"] = [pc |-> "returned", at |-> NULL]]
            /\ UNCHANGED <<running, sw>>
       ELSE /\ running' = [running EXCEPT !["sync"] = FALSE]
            /\ stopCall' = [stopCall EXCEPT !["sync"] = [pc |-> "awaiting", at |-> sw.pc]]
            /\ sw' = [sw EXCEPT !.pc = "cancelling"]
    /\ UNCHANGED <<schools, students, rosters, last, dirty>>
    /\ UNCHANGED <<queueVars, routeVars>>

\* the event loop resumes the cancelled task
SyncWorkerCancelled ==
    /\ sw.pc = "cancelling"
    /\ sw' = CancelTask(sw, stopCall["sync"].at, [SyncAsleep EXCEPT !.pc = "done"])
    /\ UNCHANGED <<schools, students, rosters, last, dirty>>
    /\ loops' = [loops EXCEPT !["sync"] = IF sw'.pc = "done" THEN @ - 1 ELSE @]
    /\ UNCHANGED <<running, stopCall>>
    /\ UNCHANGED <<queueVars, routeVars>>

\* stop(): `await self._task` raises CancelledError, which stop() passes over
StopSyncWorkerReturns ==
    /\ stopCall["sync"].pc = "awaiting"
    /\ sw.pc = "done"
    /\ stopCall' = [stopCall EXCEPT !["sync"].pc = "returned"]
    /\ UNCHANGED <<running, loops>>
    /\ UNCHANGED <<queueVars, syncVars, routeVars>>

\* the queue side at rest: nothing enqueued, the worker asleep and never stopped
QueueQuiet ==
    /\ queue = <<>>
    /\ responses = {}
    /\ failLog = <<>>
    /\ qw = Asleep
    /\ running["queue"]
    /\ stopCall["queue"] = NoStop

\* the sync side at rest: no school registered, the worker asleep and never stopped
SyncQuiet ==
    /\ schools = {}
    /\ students = {}
    /\ dirty = {}
    /\ sw = SyncAsleep
    /\ running["sync"]
    /\ stopCall["sync"] = NoStop

\* the two workers share no state: each is run, stopped and started again
\* with the other side at rest
StopNext ==
    \/ SyncQuiet /\ \E t \in TypeInputs, g \in TargetInputs : CreateStudentRequest(t, g)
    \/ SyncQuiet /\ ProcessQueue
    \/ SyncQuiet /\ ProcessQueueFails
    \/ SyncQuiet /\ ProcessRequest
    \/ SyncQuiet /\ ProcessRequestTransportError
    \/ SyncQuiet /\ MarkProcessed
    \/ SyncQuiet /\ MarkProcessedFails
    \/ SyncQuiet /\ MarkFailed
    \/ SyncQuiet /\ MarkFailedFails
    \/ SyncQuiet /\ StartQueueWorker
    \/ SyncQuiet /\ StopQueueWorker
    \/ SyncQuiet /\ QueueWorkerCancelled
    \/ SyncQuiet /\ StopQueueWorkerReturns
    \/ QueueQuiet /\ \E school \in SchoolInputs : CreateSchool(school)
    \/ QueueQuiet /\ \E request \in StudentInputs : CreateStudent(request)
    \/ QueueQuiet /\ SyncAllSchools
    \/ QueueQuiet /\ SyncAllSchoolsFails
    \/ QueueQuiet /\ SyncSchoolIfChanged
    \/ QueueQuiet /\ SyncSchoolFetchFails
    \/ QueueQuiet /\ SyncRow
    \/ QueueQuiet /\ DeleteOrphans
    \/ QueueQuiet /\ RecordSync
    \/ QueueQuiet /\ SyncStorageFails
    \/ QueueQuiet /\ StartSyncWorker
    \/ QueueQuiet /\ StopSyncWorker
    \/ QueueQuiet /\ SyncWorkerCancelled
    \/ QueueQuiet /\ StopSyncWorkerReturns

\* the event loop runs a task that is ready: the cancelled task, then stop()
StopSpec ==
    /\ Init
    /\ [][StopNext]_vars
    /\ WF_vars(QueueWorkerCancelled) /\ WF_vars(StopQueueWorkerReturns)
    /\ WF_vars(SyncWorkerCancelled) /\ WF_vars(StopSyncWorkerReturns)

\* the outbox and its worker, with a sheet that people edit by hand
CellNext ==
    \/ \E t \in TypeInputs, g \in TargetInputs : CreateStudentRequest(t, g)
    \/ \E t \in TypeInputs, g \in TargetInputs : CreateStudentRequestFails(t, g)
    \/ ProcessQueue
    \/ ProcessQueueFails
    \/ ProcessRequest
    \/ ProcessRequestTransportError
    \/ MarkProcessed
    \/ MarkProcessedFails
    \/ MarkFailed
    \/ MarkFailedFails
    \/ \E i \in DOMAIN sheet : CorruptCell(i)

CellSpec == Init /\ [][CellNext]_vars

\* the outbox and its worker, with a sheet in which requests get resolved
ResolveNext ==
    \/ \E t \in TypeInputs, g \in TargetInputs : CreateStudentRequest(t, g)
    \/ ProcessQueue
    \/ ProcessQueueFails
    \/ ProcessRequest
    \/ ProcessRequestTransportError
    \/ MarkProcessed
    \/ MarkProcessedFails
    \/ MarkFailed
    \/ MarkFailedFails
    \/ \E i \in DOMAIN sheet : \E k \in DOMAIN sheet[i].J : ResolveInSheet(i, k)

ResolveSpec == Init /\ [][ResolveNext]_vars

\* request bodies of POST /schools/{band_id}/requests that ask for a new name
NameChangeInputs == [band_id : {"B1"}, student_name : {"Alice"}, request_type : {"nameChange"}]

\* the approval of name changes, one request at a time, and the
\* reconciliation cycles, with a database and a Sheets API that answer every call
RenameNext ==
    \/ \E school \in SchoolInputs : CreateSchool(school)
    \/ \E request \in StudentInputs : CreateStudent(request)
    \/ \E request \in NameChangeInputs : CreateRequestCheck(1, request)
    \/ CreateRequestInsert(1)
    \/ \E b \in Bands, id \in RequestIds, action \in ResolveInputs : ResolveRequestRead(1, b, id, action)
    \/ ResolveRequestWrite(1)
    \/ SyncAllSchools
    \/ SyncSchoolIfChanged
    \/ SyncRow
    \/ DeleteOrphans
    \/ RecordSync

RenameSpec == Init /\ [][RenameNext]_vars

\* the objects as the modules construct them: no worker is started
AppInit ==
    /\ responses = {}
    /\ queue = <<>>
    /\ sheet = SheetRows
    /\ qw = Asleep
    /\ failLog = <<>>
    /\ schools = {}
    /\ students = {}
    /\ rosters = Rosters
    /\ sw = SyncAsleep
    /\ last = [b \in Bands |-> [ok |-> FALSE, snapshot |-> <<>>]]
    /\ dirty = {}
    /\ running = [w \in Workers |-> FALSE]
    /\ loops = [w \in Workers |-> 0]
    /\ stopCall = [w \in Workers |-> NoStop]
    /\ claimLog = {}
    /\ student_requests = {}
    /\ handlers = [h \in Handlers |-> Idle]

\* the application of main.py while it runs: lifespan starts the queue worker
\* (and no other), clients enqueue requests, schools are registered and the
\* roster of a school is edited
AppNext ==
    \/ StartQueueWorker
    \/ \E t \in TypeInputs, g \in TargetInputs : CreateStudentRequest(t, g)
    \/ \E t \in TypeInputs, g \in TargetInputs : CreateStudentRequestFails(t, g)
    \/ ProcessQueue
    \/ ProcessQueueFails
    \/ ProcessRequest
    \/ ProcessRequestTransportError
    \/ MarkProcessed
    \/ MarkProcessedFails
    \/ MarkFailed
    \/ MarkFailedFails
    \/ \E school \in SchoolInputs : CreateSchool(school)
    \/ \E roster \in RosterInputs : EditRoster(roster)

\* the event loop runs the lifespan and every task that was created
AppSpec ==
    /\ AppInit
    /\ [][AppNext]_vars
    /\ WF_vars(StartQueueWorker /\ running' # running)
    /\ WF_vars(ProcessQueue)
    /\ WF_vars(SyncAllSchools)

\* fairness: the event loop keeps running the worker task, and its sleep ends
WorkerStep ==
    \/ ProcessQueue
    \/ ProcessQueueFails
    \/ ProcessRequest
    \/ ProcessRequestTransportError
    \/ MarkProcessed
    \/ MarkProcessedFails
    \/ MarkFailed
    \/ MarkFailedFails

\* ... and the local database fails now and then, not every time it is asked
\* to requeue an entry
LiveSpec == Spec /\ WF_vars(WorkerStep) /\ SF_vars(MarkFailed)

\* ... and the spreadsheet is reachable again and again, and so is the local
\* database when an entry is to be marked processed
ReachableSpec == LiveSpec /\ SF_vars(ProcessRequest) /\ SF_vars(MarkProcessed)

\* ================================================================ claims
Ids == 1..MaxReq

HasRow(id) == \E i \in DOMAIN queue : queue[i].id = id

Row(id) == queue[RowOf(queue, id)]

IsPending(id) == HasRow(id) /\ Row(id).status = "pending"

IsProcessed(id) == HasRow(id) /\ Row(id).status = "processed"

\* C1: no entry is ever removed from the outbox: every id a 202 response
\* announced is a row of the queue table, and a row that mark_request_processed
\* never updated is still pending, whatever its retry_count.
C1_NoEntryDropped ==
    /\ \A r \in responses : HasRow(r.id)
    /\ \A i \in DOMAIN queue :
          \/ queue[i].status = "pending" /\ queue[i].processed_at = NoTime
          \/ queue[i].status = "processed" /\ queue[i].processed_at # NoTime

C1_Witness ==
    \E i \in DOMAIN queue :
        /\ queue[i].status = "pending"
        /\ queue[i].retry_count = MaxRetry
        /\ \E j \in DOMAIN queue : queue[j].status = "processed"

\* what take_pending(limit) has to return from the table q
TakeOK(q, result, limit) ==
    /\ Len(result) <= limit
    /\ \A k \in DOMAIN result : \E i \in PendingRows(q) : result[k] = q[i]
    /\ \A j, k \in DOMAIN result : j < k =>
          /\ result[j].id # result[k].id
          /\ result[j].queued_at <= result[k].queued_at
    /\ \A i \in PendingRows(q) :
          (\A k \in DOMAIN result : result[k].id # q[i].id) =>
              /\ Len(result) = limit
              /\ \A k \in DOMAIN result : result[k].queued_at <= q[i].queued_at

\* C2: get_pending_requests(limit) returns at most limit rows, all pending, in
\* non-decreasing queued_at order, and they are the pending rows with the
\* smallest queued_at.
C2_TakePendingFifo ==
    \A limit \in 0..MaxReq : TakeOK(queue, get_pending_requests(queue, limit), limit)

\* more pending rows than a limit, a processed row, and two pending rows whose
\* queue order is the reverse of the order of their request timestamps
C2_Witness ==
    /\ \E limit \in 1..MaxReq : Cardinality(PendingRows(queue)) > limit
    /\ \E i \in DOMAIN queue : queue[i].status = "processed"
    /\ \E i, j \in PendingRows(queue) :
          /\ queue[i].request_timestamp < queue[j].request_timestamp
          /\ queue[i].queued_at > queue[j].queued_at

\* position of the row with this id in a list of rows (0: not in it)
PosIn(result, id) ==
    IF \E k \in DOMAIN result : result[k].id = id
    THEN CHOOSE k \in DOMAIN result : result[k].id = id
    ELSE 0

\* in the list, b comes before a whenever a is in it
Before(result, b, a) ==
    PosIn(result, a) # 0 => (PosIn(result, b) # 0 /\ PosIn(result, b) < PosIn(result, a))

\* the step in which _process_queue takes its batch
TakeStep == qw.pc = "sleep" /\ qw'.pc = "request"

\* C3 as stated: once mark_request_failed ran on A while B was pending and
\* newer, take_pending(2) returns B before A while both are pending, and the
\* batch of the next tick has B before A.
C3_Original ==
    /\ [](\A k \in DOMAIN failLog : \A b \in failLog[k].peers :
            (IsPending(failLog[k].id) /\ IsPending(b)) =>
                Before(get_pending_requests(queue, 2), b, failLog[k].id))
    /\ [][TakeStep =>
            \A k \in DOMAIN failLog : \A b \in failLog[k].peers :
                IsPending(b) => Before(qw'.pending, b, failLog[k].id)]_vars

\* b has not itself been passed to mark_request_failed after failLog[k]
NotFailedSince(k, b) == \A j \in DOMAIN failLog : j > k => failLog[j].id # b

\* C3 as amended: the same, for every B that has not itself failed after A did.
C3_RequeueToTail ==
    /\ [](\A k \in DOMAIN failLog : \A b \in failLog[k].peers :
            (IsPending(failLog[k].id) /\ IsPending(b) /\ NotFailedSince(k, b)) =>
                \A limit \in 1..MaxReq :
                    Before(get_pending_requests(queue, limit), b, failLog[k].id))
    /\ [][TakeStep =>
            \A k \in DOMAIN failLog : \A b \in failLog[k].peers :
                (IsPending(b) /\ NotFailedSince(k, b)) =>
                    Before(qw'.pending, b, failLog[k].id)]_vars

\* A failed while B was pending and newer, B has not failed since, and the next
\* batch has been taken with B ahead of A
C3_Witness ==
    /\ qw.pc = "request"
    /\ qw.pos = 1
    /\ Len(qw.pending) = 2
    /\ IsPending(qw.pending[1].id)
    /\ IsPending(qw.pending[2].id)
    /\ Row(qw.pending[2].id).retry_count > 0
    /\ Row(qw.pending[1].id).retry_count = 0
    /\ Row(qw.pending[1].id).request_timestamp > Row(qw.pending[2].id).request_timestamp

\* the step in which mark_request_failed returns
MarkFailedStep == Len(failLog') = Len(failLog) + 1

\* the id handed to mark_request_failed in that step
FailedId == qw.pending[qw.pos].id

KeptColumns == {"id", "request_type", "student_code", "student_uid", "request_timestamp", "status", "processed_at"}

\* C4: the request_timestamp of a row is the timestamp its 202 response
\* announced, for ever; mark_request_failed changes retry_count, last_error
\* and queued_at of its row and nothing else in the table.
C4_RequestTimestampImmutable ==
    /\ [](\A r \in responses : HasRow(r.id) /\ Row(r.id).request_timestamp = r.timestamp)
    /\ [][MarkFailedStep =>
            /\ DOMAIN queue' = DOMAIN queue
            /\ \A i \in DOMAIN queue :
                  /\ \A c \in KeptColumns : queue'[i][c] = queue[i][c]
                  /\ queue[i].id # FailedId =>
                        /\ queue'[i].retry_count = queue[i].retry_count
                        /\ queue'[i].last_error = queue[i].last_error
                        /\ \A j \in DOMAIN queue : queue[j].id # FailedId =>
                              (queue[i].queued_at < queue[j].queued_at
                                  <=> queue'[i].queued_at < queue'[j].queued_at)]_vars

\* a row that failed, was requeued behind a newer one, and kept its timestamp
C4_Witness ==
    \E i, j \in DOMAIN queue :
        /\ queue[i].retry_count > 0
        /\ queue[i].request_timestamp < queue[j].request_timestamp
        /\ queue[i].queued_at > queue[j].queued_at
        /\ \E r \in responses : r.id = queue[i].id /\ r.timestamp = queue[i].request_timestamp

\* the step in which mark_request_processed returns
MarkProcessedStep ==
    /\ qw.pc = "mark_processed"
    /\ queue[RowOf(queue, qw.pending[qw.pos].id)].status = "pending"
    /\ queue'[RowOf(queue, qw.pending[qw.pos].id)].status = "processed"

\* C5: an attempt whose add_student_request returned is followed by
\* mark_request_processed and never by mark_request_failed; an attempt that
\* failed is followed by one mark_request_failed, which adds one to
\* retry_count, sets last_error, makes queued_at the latest of the table and
\* leaves the row pending.
C5_AttemptOutcome ==
    /\ [](qw.pc = "mark_failed" => ~qw.wrote)
    /\ [][MarkProcessedStep => qw.wrote]_vars
    /\ [][MarkFailedStep =>
            LET i == RowOf(queue, FailedId)
            IN  /\ queue'[i].retry_count = Inc(queue[i].retry_count)
                /\ queue'[i].last_error # NULL
                /\ queue'[i].status = "pending"
                /\ \A j \in DOMAIN queue' : queue'[j].queued_at <= queue'[i].queued_at]_vars

\* the cell holds the request object written for this queue row
Written(id) == \E i \in DOMAIN sheet : \E k \in DOMAIN sheet[i].J : sheet[i].J[k].id = id

\* add_student_request would return for this queue row
CanSucceed(id) ==
    /\ HasRow(id)
    /\ LET r == Row(id)
       IN  add_student_request(sheet, r.request_type, r.student_code, r.student_uid, r.id, r.request_timestamp, RequestTimeNow).error = NULL

\* C6: under ReachableSpec, a pending row is eventually written to the cell
\* and marked processed, unless add_student_request has come to reject it
\* (student not found, pending request of the same type) before writing it.
C6_EventualDelivery ==
    \A id \in Ids :
        IsPending(id) ~> \/ Written(id) /\ IsProcessed(id)
                         \/ ~Written(id) /\ ~CanSucceed(id)

\* _process_request has called add_student_request for this row and is about
\* to record the outcome
Attempted(id) ==
    /\ qw.pc \in {"mark_processed", "mark_failed"}
    /\ qw.pending[qw.pos].id = id

\* C7: under LiveSpec, every pending row is eventually attempted, however
\* often the rows before it fail.
C7_NoHeadOfLineBlocking == \A id \in Ids : IsPending(id) ~> Attempted(id)

\* a row is attempted for the first time while an older row that keeps failing
\* is still pending
C7_Witness ==
    \E e, f \in Ids :
        /\ Attempted(e)
        /\ IsPending(f)
        /\ Row(e).retry_count = 0
        /\ Row(f).retry_count = MaxRetry
        /\ Row(f).request_timestamp < Row(e).request_timestamp

\* a step of the StudentSyncWorker
SyncStep == sw' # sw

\* the worker is between the reads of a cycle and the end of its deletion
Applying == sw.pc \in {"rows", "delete"}

SnapshotNames == {sw.sheet_students[k].name : k \in DOMAIN sw.sheet_students}

MirrorNames(st, band_id) == {r.name : r \in get_all_students(st, band_id)}

\* C8: a cycle that has read its snapshot and meets no storage error ends with
\* the names of the band's students equal to the names of the snapshot (the
\* CRUD routes not having written meanwhile); no step of the worker changes a
\* student of another band.
C8_MirrorFollowsSnapshot ==
    /\ [][(SyncStep /\ Applying /\ ~Applying' /\ sw'.error # "storage" /\ sw.band_id \notin dirty') =>
            MirrorNames(students', sw.band_id) = SnapshotNames]_vars
    /\ [][SyncStep =>
            \A b \in Bands \ {sw.band_id} : get_all_students(students', b) = get_all_students(students, b)]_vars

\* C9: no step of a cycle changes or removes a student of the band whose name
\* is in the snapshot: its uid and student_code are what they were.
C9_OwnedFieldsKept ==
    [][(SyncStep /\ Applying) =>
          \A r \in get_all_students(students, sw.band_id) :
              r.name \in SnapshotNames => r \in students']_vars

\* a cycle has gone through its rows and its deletion while the band had a
\* student with a uid and a code whose row in the sheet shows another uid
C9_Witness ==
    /\ sw.pc = "record"
    /\ \E r \in get_all_students(students, sw.band_id) :
          /\ r.uid = "U1"
          /\ r.student_code = "K1"
          /\ \E k \in DOMAIN sw.sheet_students :
                /\ sw.sheet_students[k].name = r.name
                /\ sw.sheet_students[k].uid = "U9"

\* C10: a cycle that follows a completed cycle of the same band, on the same
\* snapshot and with no write of the CRUD routes since that cycle began, changes
\* no student and counts no creation, update or deletion.
C10_SecondCycleIdle ==
    [][(SyncStep /\ sw.repeat /\ sw.band_id \notin dirty) =>
          /\ students' = students
          /\ sw'.created = 0
          /\ sw'.updated = 0
          /\ sw'.deleted = 0]_vars

\* the second of two such cycles has finished its deletion, on a band that has students
C10_Witness ==
    /\ sw.pc = "record"
    /\ sw.repeat
    /\ sw.band_id \notin dirty
    /\ Cardinality(get_all_students(students, sw.band_id)) = 2

\* the step in which update_school returns at the end of a cycle
RecordStep == sw.pc = "record" /\ sw'.pc # "record" /\ sw'.error = NULL

\* the row of a band in the schools table
SchoolOf(sc, band_id) == CHOOSE r \in sc : r.band_id = band_id

\* the step in which _sync_school_if_changed passes its gate and reads the sheet
FetchStep == sw.pc = "school" /\ sw'.pc \in {"rows", "delete"}

\* C11: a cycle that completes stores the modification time it read as the
\* school's sheet_modified_at, and sets last_synced_at; a school whose stored
\* sheet_modified_at equals the time the source reports is skipped with no
\* read of the roster and no change of the students; a roster is read only
\* when the two differ.
C11_ChangeDetectionGate ==
    /\ [][RecordStep =>
            /\ Get(SchoolOf(schools', sw.band_id), "sheet_modified_at") = sw.current_modified
            /\ Truthy(Get(SchoolOf(schools', sw.band_id), "last_synced_at"))]_vars
    /\ [][(sw.pc = "school" /\ SyncStep) =>
            LET school == SchoolOf(schools, Head(sw.todo).band_id)
                recorded == Get(school, "sheet_modified_at")
                current == rosters[school.student_list_spreadsheet_id].modifiedTime
            IN  /\ (Truthy(recorded) /\ recorded = current) => (~FetchStep /\ students' = students)
                /\ FetchStep => recorded # current]_vars

\* C12: a step of a school's cycle that fails (the modification time or the
\* roster cannot be read, upsert_student or a statement raises) leaves the
\* schools table as it was, so the next tick passes the gate again, and the
\* loop goes on with the next school of the tick; no school of a tick is left
\* out.
C12_FailureIsolated ==
    /\ [][(SyncStep /\ sw'.error # NULL) =>
            /\ schools' = schools
            /\ sw'.todo = Tail(sw.todo)
            /\ sw'.pc = IF Len(sw.todo) > 1 THEN "school" ELSE "sleep"]_vars
    /\ [][(SyncStep /\ sw.pc # "sleep" /\ sw'.todo # sw.todo) =>
            /\ sw'.todo = Tail(sw.todo)
            /\ sw'.todo # <<>> => sw'.pc = "school"]_vars

\* the cycle of the first school of a tick has failed in upsert_student and
\* the second school is at its gate
C12_Witness ==
    /\ sw.pc = "school"
    /\ sw.error = "TypeError"
    /\ Len(sw.todo) = 1
    /\ Head(sw.todo).band_id = "B2"

\* the uids of column B that are tags
Tags == {"U1", "U2", "U3"}

\* rows of the sheet that hold this tag
Holders(rows, uid) == {i \in DOMAIN rows : rows[i].B = uid}

\* C13: a claim of a tag that another row of the sheet holds writes nothing to
\* the sheet and leaves an outbox entry of the uid-claim kind that is pending,
\* with retry_count 1 and last_error set.
C13_ClaimConflictRequeued ==
    /\ [][\A c \in claimLog' : (claimLog' # claimLog /\ Holders(sheet, c.new_uid) # {}) => sheet' = sheet]_vars
    /\ [](\A c \in claimLog : c.status = 409 =>
            \E i \in DOMAIN queue :
                /\ queue[i].request_type = "uidClaim"
                /\ queue[i].student_code = c.student_code
                /\ queue[i].status = "pending"
                /\ queue[i].retry_count = 1
                /\ queue[i].last_error # NULL)

ConflictErrors == {"Already have a pending request"}

\* C15: an entry whose attempt failed with a data conflict is not attempted
\* again: no tick calls add_student_request for an entry whose last_error is
\* a conflict.
C15_ConflictIsTerminal ==
    qw.pc = "request" => Row(qw.pending[qw.pos].id).last_error \notin ConflictErrors

\* C16: a tick ends only after the last entry of its batch: whatever raises
\* while an entry is processed, the entries after it in the batch are still
\* attempted.
C16_BatchContinues ==
    [][(qw.pc # "sleep" /\ qw'.pc = "sleep") => qw.pos = Len(qw.pending)]_vars

\* the pending rows of student_requests for a band, a student and a type
PendingFor(band_id, student_name, request_type) ==
    db_get_student_requests(student_requests, band_id, "pending", request_type, student_name)

\* C17: student_requests never holds two pending rows with the same band_id,
\* student_name and request_type.
C17_OnePendingPerTriple ==
    \A r \in student_requests : Cardinality(PendingFor(r.band_id, r.student_name, r.request_type)) <= 1

\* the columns of a queue row that C18 compares
ComparedColumns == {"id", "status", "retry_count", "queued_at", "request_timestamp", "last_error"}

\* C18: for the table of any reachable state and any id in it, a second
\* mark_request_processed(id) after a first leaves the row processed, leaves
\* status, retry_count, queued_at, request_timestamp and last_error of every
\* row as the first call left them, and leaves get_pending_requests(limit)
\* the same, for the worker's limit and for a limit that takes every pending
\* row (the answer for any other limit is a prefix of that one).
C18_MarkProcessedIdempotent ==
    /\ \A id \in Ids : HasRow(id) =>
        LET q1 == mark_request_processed(queue, id, ProcessedAtNow(queue))
            q2 == mark_request_processed(q1, id, ProcessedAtNow(q1))
        IN  /\ q1[RowOf(queue, id)].status = "processed"
            /\ q2[RowOf(queue, id)].status = "processed"
            /\ DOMAIN q2 = DOMAIN q1
    /\ \A id \in Ids : HasRow(id) =>
        LET q1 == mark_request_processed(queue, id, ProcessedAtNow(queue))
            q2 == mark_request_processed(q1, id, ProcessedAtNow(q1))
        IN  \A i \in DOMAIN q1 : \A c \in ComparedColumns : q2[i][c] = q1[i][c]
    /\ \A id \in Ids : HasRow(id) =>
        LET q1 == mark_request_processed(queue, id, ProcessedAtNow(queue))
            q2 == mark_request_processed(q1, id, ProcessedAtNow(q1))
        IN  /\ get_pending_requests(q2, BatchLimit) = get_pending_requests(q1, BatchLimit)
            /\ get_pending_requests(q2, MaxReq) = get_pending_requests(q1, MaxReq)

\* the worker has marked processed a row that had failed before, while
\* other rows are pending
C18_Witness ==
    \E i, j \in DOMAIN queue :
        /\ queue[i].status = "processed"
        /\ queue[i].retry_count > 0
        /\ queue[i].last_error # NULL
        /\ queue[j].status = "pending"

\* the row is a new entry: pending, never retried, with an id no row of q has
FreshEntry(q, row) ==
    /\ row.status = "pending"
    /\ row.retry_count = 0
    /\ \A i \in DOMAIN q : q[i].id # row.id

\* C19: the ids of the queue are pairwise different; a step that adds a row
\* adds one fresh entry and keeps the others; and in every reachable state an
\* enqueue with the payload of a row the queue already has adds a fresh entry
\* all the same.
C19_EnqueueNoDedup ==
    /\ [](\A i, j \in DOMAIN queue : i # j => queue[i].id # queue[j].id)
    /\ [](\A i \in DOMAIN queue :
            LET q2 == queue_student_request(queue, NewId, queue[i].request_type, queue[i].student_code,
                                            queue[i].student_uid, RequestTimeNow, QueuedAtNow(queue))
            IN  /\ Len(q2) = Len(queue) + 1
                /\ FreshEntry(queue, q2[Len(q2)])
                /\ \A k \in DOMAIN queue : q2[k] = queue[k])
    /\ [][Len(queue') # Len(queue) =>
            /\ Len(queue') = Len(queue) + 1
            /\ FreshEntry(queue, queue'[Len(queue')])
            /\ \A k \in DOMAIN queue : queue'[k] = queue[k]]_vars

\* two pending entries with the same type, code and uid, neither retried
C19_Witness ==
    \E i, j \in DOMAIN queue :
        /\ i # j
        /\ queue[i].request_type = queue[j].request_type
        /\ queue[i].student_code = queue[j].student_code
        /\ queue[i].student_uid = queue[j].student_uid
        /\ queue[i].status = "pending" /\ queue[j].status = "pending"
        /\ queue[i].retry_count = 0 /\ queue[j].retry_count = 0


\* a call of stop() on the worker has returned and start() was not called since
Stopped(w) == ~running[w] /\ stopCall[w].pc = "returned"

\* the steps of the sync worker's task
SyncWorkerStep ==
    \/ SyncAllSchools
    \/ SyncAllSchoolsFails
    \/ SyncSchoolIfChanged
    \/ SyncSchoolFetchFails
    \/ SyncRow
    \/ DeleteOrphans
    \/ RecordSync
    \/ SyncStorageFails

\* C20: stop() on a worker always returns, whether the worker is asleep, in
\* the middle of a tick or not running: a call that awaits the cancelled task
\* gets its return, and a call on a stopped worker returns at once. Once it
\* has returned, and until start() is called again, the worker's task can take
\* no step (it starts no tick and makes no call), and no step changes the
\* task, the sheet, a row of the queue or the tables of the mirror other than
\* through a route.
C20_StopReturnsAndHalts ==
    /\ \A w \in Workers : (stopCall[w].pc = "awaiting") ~> (stopCall[w].pc = "returned")
    /\ [](~running["queue"] /\ stopCall["queue"].pc # "awaiting" => ENABLED StopQueueWorker)
    /\ [](~running["sync"] /\ stopCall["sync"].pc # "awaiting" => ENABLED StopSyncWorker)
    /\ [](Stopped("queue") => qw.pc = "done" /\ ~ENABLED WorkerStep)
    /\ [](Stopped("sync") => sw.pc = "done" /\ ~ENABLED SyncWorkerStep)
    /\ [][Stopped("queue") /\ ~running'["queue"] =>
            /\ qw' = qw
            /\ sheet' = sheet
            /\ \A i \in DOMAIN queue : queue'[i] = queue[i]]_vars
    /\ [][Stopped("sync") /\ ~running'["sync"] =>
            /\ sw' = sw
            /\ last' = last
            /\ students' # students => \E request \in StudentInputs : CreateStudent(request)
            /\ schools' # schools => \E school \in SchoolInputs : CreateSchool(school)]_vars

\* stop() has returned on a queue worker it cancelled between the write to
\* the sheet and the mark in the queue, with the entry still pending
C20_Witness ==
    /\ Stopped("queue")
    /\ stopCall["queue"].at = "mark_processed"
    /\ \E i \in DOMAIN queue : queue[i].status = "pending"


\* the record of the students table for a band and a name ({}: none)
MirrorRecord(st, band_id, name) == {r \in st : r.band_id = band_id /\ r.name = name}

\* C21: when the loop of a cycle is at a row whose name the mirror holds and
\* whose instrument is given and differs from the mirror record's, the step
\* of the loop (unless storage fails) leaves the record with the instrument
\* of the row and with the uid and student_code it had, and the cycle goes on.
C21_InstrumentFollowsSnapshot ==
    [][(/\ sw.pc = "rows"
        /\ SyncStep
        /\ sw'.error # "storage"
        /\ sw.sheet_students[sw.i].name \in DOMAIN sw.api_students_by_name
        /\ Truthy(sw.sheet_students[sw.i].instrument)
        /\ sw.sheet_students[sw.i].instrument # Get(sw.api_students_by_name[sw.sheet_students[sw.i].name], "instrument"))
       => /\ sw'.error = NULL
          /\ \A r \in MirrorRecord(students, sw.band_id, sw.sheet_students[sw.i].name) :
                \E r2 \in MirrorRecord(students', sw.band_id, sw.sheet_students[sw.i].name) :
                    /\ Get(r2, "instrument") = sw.sheet_students[sw.i].instrument
                    /\ r2.uid = r.uid
                    /\ r2.student_code = r.student_code]_vars


\* names of the rows of a roster
RosterNames(roster) ==
    LET sheet_students == get_all_students_from_sheet(roster.values)
    IN  {sheet_students[k].name : k \in DOMAIN sheet_students}

\* C22: while the application runs both workers keep ticking, each whenever
\* it has something to take; and if school B1 is registered and its roster
\* is, from some moment on, never edited again, then from some moment on the
\* names of B1 in the mirror are the names of that roster.
C22_BothTickAndMirrorConverges ==
    /\ (queue # <<>> /\ \E i \in DOMAIN queue : queue[i].status = "pending" /\ qw.pc = "sleep") ~> (qw.pc # "sleep")
    /\ (schools # {} /\ sw.pc = "sleep") ~> (sw.pc # "sleep")
    /\ \A roster \in RosterInputs \cup {Rosters["S1"]} :
         <>[]((\E school \in schools : school.band_id = "B1") /\ rosters["S1"] = roster)
            => <>[](MirrorNames(students, "B1") = RosterNames(roster))


\* the request objects of all cells of column J
RequestObjects == UNION {{sheet[i].J[k] : k \in DOMAIN sheet[i].J} : i \in DOMAIN sheet}

\* C23: every request object in a cell of column J carries the id of a queue
\* row and, as its timestamp, the request_timestamp of that row, which is the
\* timestamp the 202 response announced: never the time of the attempt that
\* wrote it, whatever the retry_count of the row.
C23_ObjectCarriesOriginalTimestamp ==
    /\ \A o \in RequestObjects :
          /\ HasRow(o.id)
          /\ o.timestamp = Row(o.id).request_timestamp
          /\ \E r \in responses : r.id = o.id /\ r.timestamp = o.timestamp
    /\ qw.pc = "request" => \A o \in RequestObjects : o.timestamp # RequestTimeNow

\* a row that failed before has been written, after a newer request was
\* accepted
C23_Witness ==
    \E o \in RequestObjects :
        /\ HasRow(o.id)
        /\ Row(o.id).retry_count > 0
        /\ \E r \in responses : r.timestamp > o.timestamp


\* the pending requests of a type in a request list
PendingOfType(requests, request_type) ==
    {k \in DOMAIN requests : requests[k].type = request_type /\ requests[k].status = "pending"}

\* the targets an append may name: by code, by uid, by neither
AppendTargets ==
    TargetInputs \cup {[student_code |-> NULL, student_uid |-> "U1"], [student_code |-> "K2", student_uid |-> NULL]}

\* C24: for the sheet of any reachable state, any type and any target:
\* add_student_request raises and leaves the sheet as it is when the list of
\* the target row holds a pending request of that type; when it returns, the
\* cell of the target row is its old list with one object appended and no
\* other cell has changed. And no cell ever holds two pending requests of one
\* type.
C24_DuplicateGuard ==
    /\ \A request_type \in valid_types, g \in AppendTargets :
          LET row == find_student_row(sheet, g.student_code, g.student_uid)
              res == add_student_request(sheet, request_type, g.student_code, g.student_uid, MaxReq, 1, RequestTimeNow)
          IN  /\ (row # 0 /\ PendingOfType(sheet[row - 1].J, request_type) # {}) =>
                    (res.error # NULL /\ res.rows = sheet)
              /\ res.error = NULL =>
                    /\ row # 0
                    /\ Len(res.rows[row - 1].J) = Len(sheet[row - 1].J) + 1
                    /\ SubSeq(res.rows[row - 1].J, 1, Len(sheet[row - 1].J)) = sheet[row - 1].J
                    /\ res.rows[row - 1].J[Len(sheet[row - 1].J) + 1].type = request_type
                    /\ \A i \in DOMAIN sheet : i # row - 1 => res.rows[i] = sheet[i]
                    /\ [res.rows EXCEPT ![row - 1].J = sheet[row - 1].J] = sheet
    /\ \A i \in DOMAIN sheet : \A request_type \in valid_types :
          Cardinality(PendingOfType(sheet[i].J, request_type)) <= 1

\* a request of a type is pending in a cell, and an entry of the same type
\* for the same row has been refused and requeued
C24_Witness ==
    \E i \in DOMAIN sheet, j \in DOMAIN queue :
        /\ PendingOfType(sheet[i].J, queue[j].request_type) # {}
        /\ queue[j].status = "pending"
        /\ queue[j].last_error = "Already have a pending request"
        /\ \A k \in DOMAIN sheet[i].J : sheet[i].J[k].id # queue[j].id


\* the row of the sheet the entry under the worker's hand names (0: none)
TargetRow == find_student_row(sheet, qw.pending[qw.pos].student_code, qw.pending[qw.pos].student_uid)

\* C25: an attempt for an entry whose target row has a cell J that is not
\* JSON leaves the sheet as it is, and the worker passes to the recording of
\* the failure and then to the next entry.
C25_MalformedCellSkipped ==
    [][(/\ qw.pc = "request"
        /\ qw' # qw
        /\ TargetRow # 0
        /\ sheet[TargetRow - 1].malformed)
       => /\ sheet' = sheet
          /\ qw'.pc = "mark_failed"]_vars


\* the positions of a task of each worker that is alive
QueueTaskAlive == qw.pc \in {"sleep", "request", "mark_processed", "mark_failed"}
SyncTaskAlive == sw.pc \in {"sleep", "school", "rows", "delete", "record"}

\* C26: the task of a worker ends only by the cancellation of stop(): while
\* the worker is running its task is alive whatever has failed, no step other
\* than the cancellation ends it, and when it sleeps the next tick can start.
C26_LoopSurvivesFailures ==
    /\ [](running["queue"] => QueueTaskAlive)
    /\ [](running["sync"] => SyncTaskAlive)
    /\ [](~QueueTaskAlive => stopCall["queue"].pc # "none")
    /\ [](~SyncTaskAlive => stopCall["sync"].pc # "none")
    /\ [][(QueueTaskAlive /\ ~QueueTaskAlive') => (StopQueueWorker /\ running["queue"])]_vars
    /\ [][(SyncTaskAlive /\ ~SyncTaskAlive') => (StopSyncWorker /\ running["sync"])]_vars
    /\ [](running["queue"] /\ qw.pc = "sleep" /\ PendingRows(queue) # {} => ENABLED ProcessQueue)
    /\ [](running["sync"] /\ sw.pc = "sleep" /\ schools # {} => ENABLED SyncAllSchools)

\* the sync worker is asleep after a tick in which a call raised, still
\* running, with a school to visit on the next tick
C26_Witness ==
    /\ running["sync"]
    /\ sw.pc = "sleep"
    /\ sw.error # NULL
    /\ schools # {}


\* the ids of the batch a tick took, in the order get_pending_requests gave
BatchIds(w) == [k \in DOMAIN w.pending |-> w.pending[k].id]

\* the worker is in a tick, at one entry of its batch
InTick(w) == w.pc \in {"request", "mark_processed", "mark_failed"}

\* C27: the queue worker never has more than one _run task, whatever calls
\* of start() and stop() were made, and a task exists exactly while the
\* worker's record is alive or being cancelled; a tick takes the batch in the
\* order of get_pending_requests, stands at one entry of it at a time, passes
\* from an entry only to the next one and only after the outcome of the
\* entry was recorded, and the sheet is written only for the entry at hand.
C27_OneEntryAtATime ==
    /\ [](loops["queue"] \in {0, 1})
    /\ [](loops["queue"] = 1 <=> (QueueTaskAlive \/ qw.pc = "cancelling"))
    /\ [](InTick(qw) => qw.pos \in DOMAIN qw.pending)
    /\ [][(qw.pc = "sleep" /\ InTick(qw')) =>
            /\ qw'.pos = 1
            /\ BatchIds(qw') = [k \in DOMAIN get_pending_requests(queue, BatchLimit) |->
                                   get_pending_requests(queue, BatchLimit)[k].id]]_vars
    /\ [][(InTick(qw) /\ InTick(qw')) =>
            /\ BatchIds(qw') = BatchIds(qw)
            /\ qw'.pos \in {qw.pos, qw.pos + 1}
            /\ qw'.pos = qw.pos + 1 => (qw.pc \in {"mark_processed", "mark_failed"} /\ qw'.pc = "request")]_vars
    /\ [][sheet' # sheet =>
            /\ qw.pc = "request"
            /\ \A r \in DOMAIN sheet : \A k \in DOMAIN sheet'[r].J :
                  k > Len(sheet[r].J) => sheet'[r].J[k].id = qw.pending[qw.pos].id]_vars

\* stop() was called while the worker was at the second entry of a batch:
\* its one task is being cancelled
C27_Witness ==
    /\ stopCall["queue"].pc = "awaiting"
    /\ stopCall["queue"].at = "request"
    /\ qw.pos = 2
    /\ loops["queue"] = 1

\* the request objects in the cells that carry this id
Copies(rows, id) ==
    {<<i, k>> \in (DOMAIN rows) \X (1..(MaxReq + 1)) : k \in DOMAIN rows[i].J /\ rows[i].J[k].id = id}

\* the step in which add_student_request writes the object of this entry
\* and returns
WriteStep(id) ==
    /\ qw.pc = "request"
    /\ qw.pending[qw.pos].id = id
    /\ qw'.pc = "mark_processed"

\* C28: the request object of an outbox entry is written to the sheet at most
\* once: no step writes the object of an entry whose object is in a cell
\* already, whether mark_request_processed failed after the write or the
\* task was cancelled between the two, and no id is in the cells twice.
C28_AppliedAtMostOnce ==
    /\ [](\A id \in Ids : Cardinality(Copies(sheet, id)) <= 1)
    /\ [][\A id \in Ids : WriteStep(id) => Copies(sheet, id) = {}]_vars

\* the step in which the cycle of a band ends: update_school has returned, or
\* an exception has left _sync_students
CycleEndStep ==
    /\ sw.pc \in {"rows", "delete", "record"}
    /\ sw'.pc \in {"sleep", "school"}

\* the approved nameChange requests whose old name the cycle at hand read
\* from the mirror and whose new name it read from the sheet
Renamed ==
    {r \in student_requests :
        /\ r.status = "approved"
        /\ r.request_type = "nameChange"
        /\ r.band_id = sw.band_id
        /\ r.student_name \in DOMAIN sw.api_students_by_name
        /\ NewName \in SnapshotNames}

\* C29: when a cycle ends that read the sheet after an approved nameChange
\* rewrote the name, the mirror holds a record under the new name with the
\* uid and the student_code that the record under the old name had when
\* the cycle began.
C29_RenameKeepsOwnedFields ==
    [][CycleEndStep =>
          \A r \in Renamed :
              \E new \in get_student_by_name(students', sw.band_id, NewName) :
                  /\ new.uid = sw.api_students_by_name[r.student_name].uid
                  /\ new.student_code = sw.api_students_by_name[r.student_name].student_code]_vars

\* the students of the band at hand that one whole cycle on the snapshot at
\* hand leaves, begun on this table
CycleResult(st) == get_all_students(sync_students(st, sw.band_id, sw.sheet_students).students, sw.band_id)

\* one whole cycle on the snapshot at hand, begun on this table, returns
CycleSucceeds(st) == sync_students(st, sw.band_id, sw.sheet_students).error = NULL

\* the table of the band as the cycle at hand read it when it began
ReadAtStart == {sw.api_students_by_name[n] : n \in DOMAIN sw.api_students_by_name}

====
